---- MODULE Spec2Model ----
(***************************************************************************)
(* A model of the parser state (crates/parser/src/state.rs), the attribute *)
(* productions (crates/parser/src/internal/attributes.rs and               *)
(* pxp-parser/src/expressions.rs) and the type engine's function-call      *)
(* typing (crates/inference/src/engine.rs).                                *)
(*                                                                         *)
(* Byte strings are sequences of one-character strings; an Option<T> is a  *)
(* sequence of length 0 (None) or 1 (Some).                                *)
(***************************************************************************)
EXTENDS Integers, Sequences, FiniteSets, TLC

VARIABLES
    id,              \* State.id: the node-id counter (u32)
    issued,          \* every value State::id() has returned, in order
    stack,           \* State.stack: VecDeque<Scope>, front first
    namespace_type,  \* State.namespace_type: Option<NamespaceType>
    imports,         \* State.imports: UseKind -> (alias -> name)
    attributes,      \* State.attributes: Vec<AttributeGroup>
    comments,        \* State.comments: Vec<Comment>
    tokens,          \* the lexer's token kinds, the last one is Eof
    spans,           \* the lexer's token spans, half-open byte ranges
    cursor,          \* the lexer's position in tokens (1-based)
    diagnostics,     \* State.diagnostics
    pushed,          \* every group handed to attribute(), in order
    drained,         \* every group handed out by get_attributes(), in order
    last,            \* the operation that ran last, its inputs and its result
    index,           \* the symbol index: function name -> declared return type
    call,            \* the function call expression the type engine is given
    map,             \* TypeMapGenerator.map: node id -> Type
    outcome,         \* "idle" before the walk, then "done" or "panicked"
    interface,       \* parse_interface: its stage and the members it has built
    parsed,          \* the expression the expression parser has returned
    ast,             \* the expression TypeEngine::infer is given
    scopes,          \* TypeMapGenerator.scopes: the variables of each scope
    union,           \* simplify_union: its argument and its result
    classes,         \* the symbol index: the names of the classes it holds
    ended,           \* the scopes ScopeStack::end has popped, in order
    level            \* parse_loop_level: its stage and the calls on the stack

vars == <<id, issued, stack, namespace_type, imports, attributes, comments,
          tokens, spans, cursor, diagnostics, pushed, drained, last,
          index, call, map, outcome, interface, parsed, ast, scopes, union,
          classes, ended, level>>

nsVars  == <<stack, namespace_type>>
lexVars == <<tokens, spans, cursor>>
attrVars == <<attributes, pushed, drained>>
engVars == <<index, call, map, outcome>>
synVars == <<interface, parsed, level>>
infVars == <<ast, scopes, union, classes, ended>>

(***************************************************************************)
(* Bounds of the model.                                                    *)
(***************************************************************************)
MaxIds == 5        \* ids handed out in one behaviour
MaxResolves == 1   \* names resolved in one behaviour of Spec
MaxDepth == 2      \* namespace scopes on the stack
MaxImports == 2    \* entries over the three import tables
MaxPushes == 3     \* attribute groups pushed in one behaviour
MaxLen == 2        \* tokens between the open tag and Eof
MaxStatements == 2 \* statements of a parsed input

(***************************************************************************)
(* Byte strings.                                                           *)
(***************************************************************************)
BS == "\\"

None == <<>>
Some(x) == <<x>>

RECURSIVE IndexOfBS(_, _)
\* position of the first backslash of s at or after i, 0 when there is none
IndexOfBS(s, i) ==
    IF i > Len(s) THEN 0
    ELSE IF s[i] = BS THEN i
    ELSE IndexOfBS(s, i + 1)

RECURSIVE LastIndexOfBS(_, _)
\* position of the last backslash of s at or before i, 0 when there is none
LastIndexOfBS(s, i) ==
    IF i < 1 THEN 0
    ELSE IF s[i] = BS THEN i
    ELSE LastIndexOfBS(s, i - 1)

\* bytestring.split(|c| c == '\\').first()
SplitFirst(s) ==
    LET i == IndexOfBS(s, 1)
    IN  IF i = 0 THEN s ELSE SubSeq(s, 1, i - 1)

\* bytestring.split(|c| c == '\\').last()
SplitLast(s) ==
    LET i == LastIndexOfBS(s, Len(s))
    IN  IF i = 0 THEN s ELSE SubSeq(s, i + 1, Len(s))

\* a mutant of SplitN2Rest: the identifier is split at every backslash and the
\* last part is taken
SplitN2RestLast(s) == SplitLast(s)

\* bytestring.splitn(2, |c| c == '\\')[1]
SplitN2Rest(s) ==
    LET i == IndexOfBS(s, 1)
    IN  SubSeq(s, i + 1, Len(s))

\* ByteString::coagulate(&[other], Some(b"\\"))
Coagulate(s, other) == s \o <<BS>> \o other

(***************************************************************************)
(* Tokens, scopes and names.                                               *)
(***************************************************************************)
UseKinds == {"Normal", "Function", "Const"}

Token(k, s) == [kind |-> k, symbol |-> s]

\* internal::identifiers::is_soft_reserved_identifier
is_soft_reserved_identifier(k) ==
    k \in {"Parent", "Self", "True", "False", "List", "Null", "Enum", "From",
           "Readonly"}

\* the tokens handed to maybe_resolve_identifier
NameTokens ==
    { Token("Identifier", <<"a">>),
      Token("Identifier", <<"z">>),
      Token("QualifiedIdentifier", <<"a", BS, "z", BS, "a">>),
      Token("QualifiedIdentifier", <<"z", BS, "a">>),
      Token("Enum", <<"e", "n", "u", "m">>),
      Token("Null", <<"n", "u", "l", "l">>) }

\* the names and aliases handed to add_import
ImportNames ==
    { <<"x", BS, "a">>, <<"x", BS, "n", "u", "l", "l">> }
ImportAliases == { None, Some(<<"a">>) }

Namespace(n) == [kind |-> "Namespace", name |-> Some(n)]
BracedNamespace(n) == [kind |-> "BracedNamespace", name |-> n]

\* the scopes handed to enter
Scopes ==
    { Namespace(<<"n">>), BracedNamespace(Some(<<"m">>)), BracedNamespace(None) }

NoName ==
    [variant |-> "None", id |-> 0, resolved |-> <<>>, original |-> <<>>, hint |-> ""]

\* Name::resolved(id, resolved, original, span)
NameResolved(i, r, o) ==
    [variant |-> "Resolved", id |-> i, resolved |-> r, original |-> o, hint |-> ""]

\* Name::unresolved(id, original, hint, span)
NameUnresolved(i, o, h) ==
    [variant |-> "Unresolved", id |-> i, resolved |-> <<>>, original |-> o, hint |-> h]

\* Name::special(id, kind, symbol, span)
NameSpecial(i, k, o) ==
    [variant |-> "Special", id |-> i, resolved |-> <<>>, original |-> o, hint |-> k]

NoToken == Token("None", <<>>)

\* the record of an operation that has just run
LastOf(op) ==
    [op |-> op, token |-> NoToken, usekind |-> "Normal", name |-> NoName,
     panicked |-> FALSE, depth |-> Len(stack), nstype |-> namespace_type,
     scope |-> BracedNamespace(None), group |-> <<>>, value |-> 0]

Running == ~last.panicked

(***************************************************************************)
(* Node ids, the lexer cursor and the comment buffer.                      *)
(***************************************************************************)
\* a mutant of NextId: hands the counter out without advancing it
NextIdStuck(i) == IF i = 0 THEN 1 ELSE i

\* State::id: the value it returns, which is also the new counter (the u32
\* counter cannot wrap within MaxIds allocations)
NextId(i) == i + 1

CommentKinds ==
    {"SingleLineComment", "MultiLineComment", "HashMarkComment", "DocBlockComment"}

\* Lexer::next: Eof is returned indefinitely once the input is exhausted
LexerNext(toks, c) == IF c < Len(toks) THEN c + 1 ELSE c

RECURSIVE collect_comments(_, _)
\* State::collect_comments on st = [cursor, id, issued, comments]: every
\* comment token at the cursor takes two ids, is pushed and is stepped over
\* (built without the "docblocks" feature, where a documentation comment is
\* one DocBlockComment token)
collect_comments(toks, st) ==
    IF toks[st.cursor] = "Eof" THEN st
    ELSE IF toks[st.cursor] \notin CommentKinds THEN st
    ELSE LET i1 == NextId(st.id)
             i2 == NextId(i1)
             comment == [id |-> i1, kind |-> toks[st.cursor], inner |-> i2]
         IN  collect_comments(toks,
                 [cursor   |-> LexerNext(toks, st.cursor),
                  id       |-> i2,
                  issued   |-> st.issued \o <<i1, i2>>,
                  comments |-> Append(st.comments, comment)])

\* State::new
StateNew(toks) ==
    LET st == collect_comments(toks,
                  [cursor |-> 1, id |-> 0, issued |-> <<>>, comments |-> <<>>])
    IN  /\ tokens = toks
        /\ cursor = st.cursor
        /\ id = st.id
        /\ issued = st.issued
        /\ comments = st.comments
        /\ stack = <<>>
        /\ namespace_type = None
        /\ imports = [k \in UseKinds |-> <<>>]
        /\ attributes = <<>>
        /\ diagnostics = <<>>
        /\ pushed = <<>>
        /\ drained = <<>>
        /\ last = [op |-> "new", token |-> NoToken, usekind |-> "Normal",
                   name |-> NoName, panicked |-> FALSE, depth |-> 0,
                   nstype |-> None, scope |-> BracedNamespace(None),
                   group |-> <<>>, value |-> 0]

\* no AST has been handed to the type engine
EngineIdle ==
    /\ index = <<>>
    /\ call = <<>>
    /\ map = <<>>
    /\ outcome = "idle"

\* parse_loop_level has not been called
LevelIdle == [stage |-> "none", calls |-> <<>>, returned |-> 0]

\* no production has run and the type engine has been given nothing
ProductionsIdle ==
    /\ interface = [stage |-> "none", members |-> <<>>]
    /\ parsed = <<>>
    /\ level = LevelIdle
    /\ ended = <<>>
    /\ ast = <<>>
    /\ scopes = <<>>
    /\ union = [types |-> <<>>, result |-> <<>>]
    /\ classes = {}

\* Span::new
Span(start, end) == [start |-> start, end |-> end]

\* the spans the lexer gives to toks: every token is one byte wide and has
\* gap bytes of whitespace in front of it; Eof is empty, at the end of the input
Layout(toks, gap) ==
    [i \in 1..Len(toks) |->
        Span((i - 1) * (1 + gap),
             (i - 1) * (1 + gap) + IF toks[i] = "Eof" THEN 0 ELSE 1)]

InitWith(toks) ==
    StateNew(toks) /\ spans = Layout(toks, 1) /\ EngineIdle /\ ProductionsIdle

\* State::id, called directly by a production
IdCall ==
    /\ Running
    /\ id < MaxIds
    /\ id' = NextId(id)
    /\ issued' = Append(issued, NextId(id))
    /\ last' = [LastOf("id") EXCEPT !.value = NextId(id)]
    /\ UNCHANGED <<engVars, synVars, infVars, nsVars, imports, attrVars, comments, lexVars, diagnostics>>

\* State::next
NextToken ==
    LET st == collect_comments(tokens,
                  [cursor |-> LexerNext(tokens, cursor), id |-> id,
                   issued |-> issued, comments |-> comments])
    IN  /\ Running
        /\ tokens[cursor] # "Eof"
        /\ st.id <= MaxIds
        /\ cursor' = st.cursor
        /\ id' = st.id
        /\ issued' = st.issued
        /\ comments' = st.comments
        /\ last' = LastOf("next")
        /\ UNCHANGED <<engVars, synVars, infVars, nsVars, imports, attrVars, tokens, spans, diagnostics>>

\* State::comments
Comments ==
    /\ Running
    /\ id < MaxIds
    /\ comments' = <<>>
    /\ id' = NextId(id)
    /\ issued' = Append(issued, NextId(id))
    /\ last' = [LastOf("comments") EXCEPT !.group = comments, !.value = NextId(id)]
    /\ UNCHANGED <<engVars, synVars, infVars, nsVars, imports, attrVars, lexVars, diagnostics>>

(***************************************************************************)
(* The attribute buffer.                                                   *)
(***************************************************************************)
AttributeGroups == {"A", "B", "C"}

\* State::attribute, Parser::attribute
Attribute(attr) ==
    /\ Running
    /\ Len(pushed) < MaxPushes
    /\ attributes' = Append(attributes, attr)
    /\ pushed' = Append(pushed, attr)
    /\ last' = LastOf("attribute")
    /\ UNCHANGED <<engVars, synVars, infVars, id, issued, nsVars, imports, comments, lexVars, diagnostics,
                   drained>>

\* a mutant of SwapOut: the drain hands the buffer out and keeps it
SwapOutKeep(buffer) == [taken |-> buffer, left |-> buffer]

\* std::mem::swap(&mut self.attributes, &mut attributes) with a fresh vec![]
SwapOut(buffer) == [taken |-> buffer, left |-> <<>>]

\* State::get_attributes, Parser::get_attributes
GetAttributes ==
    /\ Running
    /\ attributes' = SwapOut(attributes).left
    /\ drained' = drained \o SwapOut(attributes).taken
    /\ last' = [LastOf("get_attributes") EXCEPT
                   !.group = SwapOut(attributes).taken, !.value = Len(drained)]
    /\ UNCHANGED <<engVars, synVars, infVars, id, issued, nsVars, imports, comments, lexVars, diagnostics,
                   pushed>>

(***************************************************************************)
(* Namespace scopes and imports.                                           *)
(***************************************************************************)
\* a mutant of NamespaceTypeOf: every scope counts as unbraced
NamespaceTypeOfUnbraced(scope) == Some("Unbraced")

\* State::namespace_type after enter(scope)
NamespaceTypeOf(scope) ==
    IF scope.kind = "Namespace" THEN Some("Unbraced") ELSE Some("Braced")

\* VecDeque::push_back
PushBack(s, scope) == Append(s, scope)

\* a mutant of PopBack: the whole stack is dropped
PopBackAll(s) == <<>>

\* VecDeque::pop_back, which leaves an empty deque as it is
PopBack(s) == IF s = <<>> THEN s ELSE SubSeq(s, 1, Len(s) - 1)

\* State::enter
Enter(scope) ==
    /\ Running
    /\ Len(stack) < MaxDepth
    /\ namespace_type' = NamespaceTypeOf(scope)
    /\ stack' = PushBack(stack, scope)
    /\ last' = [LastOf("enter") EXCEPT !.scope = scope]
    /\ UNCHANGED <<engVars, synVars, infVars, id, issued, imports, attrVars, comments, lexVars, diagnostics>>

\* State::exit
Exit ==
    /\ Running
    /\ stack' = PopBack(stack)
    /\ last' = LastOf("exit")
    /\ UNCHANGED <<engVars, synVars, infVars, id, issued, namespace_type, imports, attrVars, comments,
                   lexVars, diagnostics>>

\* State::namespace: the front of the deque
namespace == IF stack = <<>> THEN None ELSE Some(stack[1])

\* State::join_with_namespace
join_with_namespace(name) ==
    IF namespace # None /\ namespace[1].name # None
    THEN Coagulate(namespace[1].name[1], name)
    ELSE name

\* HashMap::insert
MapInsert(m, k, v) == [x \in DOMAIN m \cup {k} |-> IF x = k THEN v ELSE m[x]]

ImportCount(imp) ==
    Cardinality(DOMAIN imp["Normal"]) + Cardinality(DOMAIN imp["Function"])
        + Cardinality(DOMAIN imp["Const"])

\* the alias add_import files the name under
ImportAlias(name, alias) == IF alias # None THEN alias[1] ELSE SplitLast(name)

\* State::add_import
AddImport(kind, name, alias) ==
    LET new == [imports EXCEPT
                   ![kind] = MapInsert(@, ImportAlias(name, alias), name)]
    IN  /\ Running
        /\ ImportCount(new) <= MaxImports
        /\ imports' = new
        /\ last' = LastOf("add_import")
        /\ UNCHANGED <<engVars, synVars, infVars, id, issued, nsVars, attrVars, comments, lexVars,
                       diagnostics>>

(***************************************************************************)
(* Name resolution.                                                        *)
(***************************************************************************)
\* State::maybe_resolve_identifier, the `part` the import table is asked for
ImportKey(token) ==
    IF token.kind \in {"Identifier", "Enum", "From"} THEN token.symbol
    ELSE IF token.kind = "QualifiedIdentifier" THEN SplitFirst(token.symbol)
    ELSE token.symbol    \* is_soft_reserved_identifier(token.kind)

\* State::maybe_resolve_identifier, the guard of the namespace branch
NamespaceFallback(kind, token) ==
    kind = "Normal" \/ token.kind = "QualifiedIdentifier"

\* a mutant of GlobalFallback: the namespace stack is not looked at
GlobalFallbackAnywhere(kind, token) ==
    /\ kind \in {"Function", "Const"}
    /\ token.kind = "Identifier"

\* State::maybe_resolve_identifier, the guard of the global branch
GlobalFallback(kind, token) ==
    /\ kind = "Function" \/ kind = "Const"
    /\ token.kind = "Identifier"
    /\ namespace = None

\* State::maybe_resolve_identifier with the id it has drawn:
\* [panicked, name]
maybe_resolve_identifier(token, kind, i) ==
    LET symbol == token.symbol
        part   == ImportKey(token)
        table    == imports[kind]
    IN  IF part \in DOMAIN table
        THEN IF token.kind \in {"Identifier", "From", "Enum"}
             THEN [panicked |-> FALSE, name |-> NameResolved(i, table[part], symbol)]
             ELSE IF token.kind = "QualifiedIdentifier"
             THEN [panicked |-> FALSE,
                   name |-> NameResolved(i,
                                Coagulate(table[part], SplitN2Rest(symbol)), symbol)]
             ELSE [panicked |-> TRUE, name |-> NoName]    \* unreachable!()
        ELSE IF NamespaceFallback(kind, token)
        THEN [panicked |-> FALSE,
              name |-> NameResolved(i, join_with_namespace(symbol), symbol)]
        ELSE IF GlobalFallback(kind, token)
        THEN [panicked |-> FALSE, name |-> NameResolved(i, symbol, symbol)]
        ELSE [panicked |-> FALSE, name |-> NameUnresolved(i, symbol, token.kind)]

\* a call of State::maybe_resolve_identifier
Resolve(token, kind) ==
    LET r == maybe_resolve_identifier(token, kind, NextId(id))
    IN  /\ Running
        /\ token.kind \in {"Identifier", "Enum", "From", "QualifiedIdentifier"}
              \/ is_soft_reserved_identifier(token.kind)
        /\ id' = NextId(id)
        /\ issued' = Append(issued, NextId(id))
        /\ last' = [LastOf("resolve") EXCEPT !.token = token, !.usekind = kind,
                       !.name = r.name, !.panicked = r.panicked]
        /\ UNCHANGED <<engVars, synVars, infVars, nsVars, imports, attrVars, comments, lexVars, diagnostics>>

(***************************************************************************)
(* The type engine: typing a function call.                                *)
(***************************************************************************)
\* pxp_type::Type
\* a type: its tag, the bytes of a literal string or of a resolved name, the
\* original bytes of a name, and the types it is made of
Ty(tag) == [t |-> tag, s |-> <<>>, o |-> <<>>, of |-> <<>>]
LiteralString(s) == [Ty("LiteralString") EXCEPT !.s = s]
Named(resolved, original) == [Ty("Named") EXCEPT !.s = resolved, !.o = original]
Union(types) == [Ty("Union") EXCEPT !.of = types]
TypedArray(key, value) == [Ty("TypedArray") EXCEPT !.of = <<key, value>>]
Mixed == Ty("Mixed")

\* an Expression: its id, the id of its kind node, and the fields of the kinds
\* the call typing reads
Expr(i, k, kind) ==
    [id |-> i, kid |-> k, kind |-> kind, name |-> NoName, litkind |-> "",
     symbol |-> <<>>, return_type |-> None, data_type |-> None,
     variadic |-> FALSE, inner |-> <<>>]

\* TypeMap::resolve: Mixed for an id without an entry
TypeMapResolve(m, i) == IF i \in DOMAIN m THEN m[i] ELSE Mixed

\* ByteStr::contains(b"::")
ContainsColons(s) == \E i \in 1..(Len(s) - 1) : s[i] = ":" /\ s[i + 1] = ":"

\* name[1..name.len() - 1]
Unquoted(s) == SubSeq(s, 2, Len(s) - 1)

\* Index::get_function(name).get_return_type(), Mixed when there is none
IndexedReturnType(name) ==
    IF name \notin DOMAIN index THEN Mixed
    ELSE IF index[name] = None THEN Mixed
    ELSE index[name][1]

\* TypeMapGenerator::is_callable_string: [panicked, value]
is_callable_string(symbol) ==
    IF ContainsColons(Unquoted(symbol))
    THEN [panicked |-> TRUE, value |-> FALSE]    \* todo!()
    ELSE [panicked |-> FALSE, value |-> Unquoted(symbol) \in DOMAIN index]

\* TypeMapGenerator::get_function_call_target_return_type_from_callable_string
get_function_call_target_return_type_from_callable_string(symbol) ==
    IF ContainsColons(Unquoted(symbol)) THEN Mixed
    ELSE IndexedReturnType(Unquoted(symbol))

\* TypeMapGenerator::get_function_call_target_return_type_from_name:
\* [panicked, type]
get_function_call_target_return_type_from_name(name) ==
    IF name.variant = "Resolved"
    THEN [panicked |-> FALSE, type |-> IndexedReturnType(name.resolved)]
    ELSE [panicked |-> TRUE, type |-> Mixed]    \* todo!()

RECURSIVE determine_function_call_target_return_type(_)
\* TypeMapGenerator::determine_function_call_target_return_type:
\* [panicked, type]
determine_function_call_target_return_type(target) ==
    IF target.kind = "Name"
    THEN get_function_call_target_return_type_from_name(target.name)
    ELSE IF target.kind = "Parenthesized"
    THEN determine_function_call_target_return_type(target.inner[1])
    ELSE IF target.kind = "Closure"
    THEN [panicked |-> FALSE,
          type |-> IF target.return_type # None THEN target.return_type[1]
                   ELSE Mixed]
    ELSE IF target.kind = "Literal"
    THEN IF target.litkind = "String"
         THEN IF is_callable_string(target.symbol).panicked
              THEN [panicked |-> TRUE, type |-> Mixed]
              ELSE IF is_callable_string(target.symbol).value
              THEN [panicked |-> FALSE,
                    type |-> get_function_call_target_return_type_from_callable_string(
                                 target.symbol)]
              ELSE [panicked |-> FALSE, type |-> Mixed]
         ELSE [panicked |-> FALSE, type |-> Mixed]
    ELSE [panicked |-> FALSE, type |-> Mixed]

\* ByteStr::strip_string_quotes
strip_string_quotes(s) ==
    IF Len(s) >= 2 /\ s[1] \in {"'", "\""} /\ s[Len(s)] = s[1]
    THEN SubSeq(s, 2, Len(s) - 1)
    ELSE s

\* the TypeMapGenerator: the map and the scope stack, the current scope last;
\* ended keeps the scopes ScopeStack::end has popped
Generator(m, sc) == [map |-> m, scopes |-> sc, ended |-> <<>>]

\* ScopeStack::new: one empty scope
ScopeStackNew == << <<>> >>

\* TypeMap::insert and TypeMap::resolve on the map of the generator
insert(g, i, ty) == [g EXCEPT !.map = MapInsert(@, i, ty)]
resolve(g, i) == TypeMapResolve(g.map, i)

\* ScopeStack::current
current(g) == g.scopes[Len(g.scopes)]

\* a mutant of set_variable: the variable is bound in the outermost scope
set_variable_outermost(g, symbol, ty) ==
    [g EXCEPT !.scopes[1] = MapInsert(@, symbol, ty)]

\* Scope::set_variable on ScopeStack::current_mut
set_variable(g, symbol, ty) ==
    [g EXCEPT !.scopes[Len(g.scopes)] = MapInsert(@, symbol, ty)]

\* ScopeStack::start: a fresh scope is pushed
start(g) == [g EXCEPT !.scopes = Append(@, <<>>)]

\* ScopeStack::end: Vec::pop
end(g) ==
    IF g.scopes = <<>> THEN g
    ELSE [g EXCEPT !.scopes = SubSeq(@, 1, Len(@) - 1),
                   !.ended = Append(@, g.scopes[Len(g.scopes)])]

\* TypeMapGenerator::unwrap_data_type
unwrap_data_type(data_type) == IF data_type = None THEN Mixed ELSE data_type[1]

\* visit_function_parameter_list, the type of one parameter
parameter_type(parameter) ==
    IF parameter.variadic
    THEN TypedArray(Ty("Integer"), unwrap_data_type(parameter.data_type))
    ELSE unwrap_data_type(parameter.data_type)

RECURSIVE visit_function_parameter_list(_, _)
\* TypeMapGenerator::visit_function_parameter_list: every parameter is bound
\* in the current scope
visit_function_parameter_list(parameters, g) ==
    IF parameters = <<>> THEN g
    ELSE visit_function_parameter_list(
             Tail(parameters),
             set_variable(g, Head(parameters).symbol,
                          parameter_type(Head(parameters))))

\* TypeMapGenerator::visit_literal
visit_literal(node, g) ==
    insert(g, node.kid,
        IF node.litkind = "Integer" THEN Ty("Integer")
        ELSE IF node.litkind = "Float" THEN Ty("Float")
        ELSE IF node.litkind = "String"
        THEN LiteralString(strip_string_quotes(node.symbol))
        ELSE Ty("Missing"))

\* TypeMapGenerator::visit_simple_variable: a variable no scope binds gets no
\* entry
visit_simple_variable(node, g) ==
    IF node.symbol \in DOMAIN current(g)
    THEN insert(g, node.kid, current(g)[node.symbol])
    ELSE g

\* TypeMapGenerator::visit_missing_expression
visit_missing_expression(node, g) == insert(g, node.kid, Ty("Missing"))

\* a mutant of retain_uniques: every type is kept
retain_all(types, seen) == types

RECURSIVE retain_uniques(_, _)
\* types.retain(|ty| uniques.insert(ty.clone())): the first of equal types is
\* kept; seen is the set the closure has filled
retain_uniques(types, seen) ==
    IF types = <<>> THEN <<>>
    ELSE IF Head(types) \in seen THEN retain_uniques(Tail(types), seen)
    ELSE <<Head(types)>> \o retain_uniques(Tail(types), seen \cup {Head(types)})

\* a mutant of collapse: a union is built of one type also
never_collapse(types) == Union(types)

\* simplify_union behind the retain: one type is returned as it is
collapse(types) == IF Len(types) = 1 THEN types[1] ELSE Union(types)

\* TypeMapGenerator::simplify_union
simplify_union(types) ==
    IF Len(types) = 1 THEN types[1] ELSE collapse(retain_uniques(types, {}))

\* an ArrayItem: Skipped, Value (the value) or KeyValue (the key, the value)
ItemValue(item) == item.inner[Len(item.inner)]
ItemKey(item) == item.inner[1]

\* a mutant of key_type: an explicit key counts as Integer as well
key_type_positional(item, g) == Ty("Integer")

\* determine_array_type, the key type of one item
key_type(item, g) ==
    IF item.kind = "KeyValue" THEN resolve(g, ItemKey(item).id) ELSE Ty("Integer")

RECURSIVE value_types(_, _)
\* determine_array_type, the types of the values of the items that are not
\* skipped
value_types(items, g) ==
    IF items = <<>> THEN <<>>
    ELSE IF Head(items).kind = "Skipped" THEN value_types(Tail(items), g)
    ELSE <<resolve(g, ItemValue(Head(items)).id)>> \o value_types(Tail(items), g)

\* determine_array_type, the key types of the items
key_types(items, g) == [i \in DOMAIN items |-> key_type(items[i], g)]

\* ArrayExpression::is_list: no item has a key
is_list(node) == \A i \in DOMAIN node.inner : node.inner[i].kind = "Value"

\* TypeMapGenerator::determine_array_type
determine_array_type(node, g) ==
    IF is_list(node)
    THEN TypedArray(Ty("Integer"), simplify_union(value_types(node.inner, g)))
    ELSE TypedArray(simplify_union(key_types(node.inner, g)),
                    simplify_union(value_types(node.inner, g)))

\* TypeMapGenerator::is_newable_string
is_newable_string(value) == value \in classes

\* TypeMapGenerator::visit_new_expression, the type of the node
new_type(target, g) ==
    IF target.kind = "Name"
    THEN IF target.name.variant = "Resolved"
         THEN Named(target.name.resolved, target.name.original)
         ELSE Mixed
    ELSE IF /\ resolve(g, target.id).t = "LiteralString"
            /\ is_newable_string(resolve(g, target.id).s)
    THEN Named(resolve(g, target.id).s, resolve(g, target.id).s)
    ELSE Ty("Object")

\* TypeMapGenerator::visit_expression behind the walk
expression_end(node, g) == insert(g, node.id, resolve(g, node.kid))

\* visit_assignment_operation_expression: a simple variable on the left is
\* bound in the current scope and gets the type of the right-hand side
assignment_bind(node, g) ==
    IF node.inner[1].kind = "Variable"
    THEN insert(set_variable(g, node.inner[1].symbol,
                             resolve(g, node.inner[2].kid)),
                node.inner[1].kid, resolve(g, node.inner[2].kid))
    ELSE g

\* visit_assignment_operation_expression behind the walk of the right-hand
\* side
assignment_end(node, g) ==
    assignment_bind(node, insert(g, node.kid, resolve(g, node.inner[2].kid)))

RECURSIVE visit_expression(_, _)
RECURSIVE walk_expression(_, _)
RECURSIVE walk_body(_, _)
\* walk_array_expression, one item: its key, then its value
walk_array_item(item, g) ==
    IF item.kind = "Skipped" THEN g
    ELSE IF item.kind = "KeyValue"
    THEN visit_expression(ItemValue(item), visit_expression(ItemKey(item), g))
    ELSE visit_expression(ItemValue(item), g)

RECURSIVE walk_array_items(_, _)
\* walk_array_expression
walk_array_items(items, g) ==
    IF items = <<>> THEN g
    ELSE walk_array_items(Tail(items), walk_array_item(Head(items), g))

\* TypeMapGenerator::visit_array_expression behind the walk
array_end(node, g) == insert(g, node.kid, determine_array_type(node, g))

\* TypeMapGenerator::visit_array_expression
visit_array_expression(node, g) ==
    array_end(node, walk_array_items(node.inner, g))

\* TypeMapGenerator::visit_new_expression behind the walk
new_end(node, g) == insert(g, node.kid, new_type(node.inner[1], g))

\* TypeMapGenerator::visit_new_expression: walk_new_expression visits the
\* target (the `new` of the model has no arguments)
visit_new_expression(node, g) ==
    new_end(node, visit_expression(node.inner[1], g))

\* TypeMapGenerator::visit_assignment_operation_expression: the kind of the
\* right-hand side is walked, the left-hand side is not visited
visit_assignment_operation_expression(node, g) ==
    assignment_end(node, walk_expression(node.inner[2], g))

\* walk_expression: the visit of the kind node of an expression; an
\* arithmetic operation has no visit of its own and its operands are visited
walk_expression(node, g) ==
    IF node.kind = "Literal" THEN visit_literal(node, g)
    ELSE IF node.kind = "Parenthesized" THEN visit_expression(node.inner[1], g)
    ELSE IF node.kind = "Variable" THEN visit_simple_variable(node, g)
    ELSE IF node.kind = "Missing" THEN visit_missing_expression(node, g)
    ELSE IF node.kind = "AssignmentOperation"
    THEN visit_assignment_operation_expression(node, g)
    ELSE IF node.kind = "ArithmeticOperation"
    THEN visit_expression(node.inner[2], visit_expression(node.inner[1], g))
    ELSE IF node.kind = "New" THEN visit_new_expression(node, g)
    ELSE IF node.kind = "Array" THEN visit_array_expression(node, g)
    ELSE IF node.kind \in {"Closure", "ArrowFunction"}
    THEN walk_body(Tail(node.inner),
                   visit_function_parameter_list(node.inner[1].inner, g))
    ELSE g

\* TypeMapGenerator::visit_expression
visit_expression(node, g) == expression_end(node, walk_expression(node, g))

\* the statements of a body in order, each an expression statement
walk_body(statements, g) ==
    IF statements = <<>> THEN g
    ELSE walk_body(Tail(statements), visit_expression(Head(statements), g))

\* walk_function_statement: the parameter list, then the body
walk_function_statement(node, g) ==
    walk_body(Tail(node.inner),
              visit_function_parameter_list(node.inner[1].inner, g))

\* TypeMapGenerator::visit_function_statement
visit_function_statement(node, g) ==
    end(walk_function_statement(node, start(g)))

\* walk_function_call_expression: the target is visited (the calls of the
\* model have no arguments)
walk_function_call_expression(node, g) == visit_expression(node.target, g)

\* TypeMapGenerator::visit_function_call_expression, reached through
\* TypeEngine::infer
VisitFunctionCall ==
    LET walked == walk_function_call_expression(
                      call[1], Generator(map, ScopeStackNew)).map
        r == determine_function_call_target_return_type(call[1].target)
    IN  /\ outcome = "idle"
        /\ call # None
        /\ IF r.panicked
           THEN /\ outcome' = "panicked"
                /\ map' = walked
           ELSE /\ outcome' = "done"
                /\ map' = MapInsert(walked, call[1].id, r.type)
        /\ last' = LastOf("infer")
        /\ UNCHANGED <<index, call, synVars, infVars, id, issued, nsVars, imports, attrVars,
                       comments, lexVars, diagnostics>>

\* the call targets the engine is given
NameTargets ==
    { [Expr(1, 2, "Name") EXCEPT !.name = n] :
        n \in { NameResolved(2, <<"f">>, <<"f">>),
                NameResolved(2, <<"n", BS, "g">>, <<"g">>),
                NameUnresolved(2, <<"f">>, "Identifier"),
                NameSpecial(2, "Self", <<"s", "e", "l", "f">>) } }

LiteralTargets ==
    { [Expr(1, 2, "Literal") EXCEPT !.litkind = "String", !.symbol = s] :
        s \in { <<"'", "f", "'">>, <<"'", "h", "'">>,
                <<"'", "C", ":", ":", "m", "'">> } }
    \cup { [Expr(1, 2, "Literal") EXCEPT !.litkind = "Integer", !.symbol = <<"1">>] }

OtherTargets ==
    { [Expr(1, 2, "Closure") EXCEPT
          !.return_type = rt,
          !.inner = <<[Expr(0, 0, "Parameters") EXCEPT !.inner = <<>>]>>] :
        rt \in { None, Some(Ty("String")) } }
    \cup { Expr(1, 2, "Variable") }

SimpleTargets == NameTargets \cup LiteralTargets \cup OtherTargets

Targets ==
    SimpleTargets
    \cup { [Expr(3, 4, "Parenthesized") EXCEPT !.inner = <<e>>] : e \in SimpleTargets }

\* the symbol indexes the engine is given
Indexes ==
    { [n \in names |-> IF n = <<"f">> THEN rt ELSE Some(Ty("Integer"))] :
        names \in SUBSET { <<"f">>, <<"n", BS, "g">> },
        rt \in { None, Some(Ty("String")) } }

InitInfer ==
    /\ StateNew(<<"Eof">>)
    /\ spans = Layout(<<"Eof">>, 1)
    /\ ProductionsIdle
    /\ index \in Indexes
    /\ call \in { Some([id |-> 5, target |-> target]) : target \in Targets }
    /\ map = <<>>
    /\ outcome = "idle"

NextInfer == VisitFunctionCall

SpecInfer == InitInfer /\ [][NextInfer]_vars

(***************************************************************************)
(* The type engine: TypeEngine::infer over expression statements.          *)
(***************************************************************************)
MaxItems == 2  \* items of an array literal

\* walk_statement: a function statement or an expression statement
visit_statement(node, g) ==
    IF node.kind = "Function" THEN visit_function_statement(node, g)
    ELSE visit_expression(node, g)

RECURSIVE visit(_, _)
\* Visitor::visit: the statements in order
visit(statements, g) ==
    IF statements = <<>> THEN g
    ELSE visit(Tail(statements), visit_statement(Head(statements), g))

\* TypeEngine::infer
Infer ==
    /\ outcome = "idle"
    /\ ast # <<>>
    /\ map' = visit(ast, Generator(<<>>, ScopeStackNew)).map
    /\ scopes' = visit(ast, Generator(<<>>, ScopeStackNew)).scopes
    /\ ended' = visit(ast, Generator(<<>>, ScopeStackNew)).ended
    /\ outcome' = "done"
    /\ last' = LastOf("visit")
    /\ UNCHANGED <<index, call, synVars, ast, union, classes, id, issued, nsVars,
                   imports, attrVars, comments, lexVars, diagnostics>>

\* the nodes of the inputs: the Expression has the id i, its kind i + 1
Literal(i, litkind, symbol) ==
    [Expr(i, i + 1, "Literal") EXCEPT !.litkind = litkind, !.symbol = symbol]
Variable(i, symbol) == [Expr(i, i + 1, "Variable") EXCEPT !.symbol = symbol]
NameOf(i, name) == [Expr(i, i + 1, "Name") EXCEPT !.name = name]
Composite(i, kind, operands) == [Expr(i, i + 1, kind) EXCEPT !.inner = operands]

\* an ArrayItem, which is no Expression
Item(kind, operands) == [Expr(0, 0, kind) EXCEPT !.inner = operands]

\* the operands of the inputs, with the ids i and i + 1
Leaves(i) ==
    { Literal(i, "Integer", <<"1">>),
      Literal(i, "Float", <<"1", ".", "5">>),
      Literal(i, "String", <<"'", "C", "'">>),
      Literal(i, "String", <<"'", "x", "'">>),
      Variable(i, <<"$", "a">>),
      Expr(i, i + 1, "Missing") }

\* the keys of the inputs
Keys(i) ==
    { Literal(i, "Integer", <<"1">>),
      Literal(i, "String", <<"'", "x", "'">>),
      Variable(i, <<"$", "a">>) }

\* `L1 + L2`
Additions(i) ==
    { Composite(i, "ArithmeticOperation",
                <<Literal(i + 2, l1, <<"1">>), Literal(i + 4, l2, <<"2">>)>>) :
        l1 \in {"Integer", "Float"}, l2 \in {"Integer", "Float"} }

\* `left = right`, the left-hand side a simple variable or a property fetch
Assignments ==
    { Composite(1, "AssignmentOperation", <<l, r>>) :
        l \in { Variable(3, <<"$", "a">>), Expr(3, 4, "PropertyFetch") },
        r \in Leaves(5) \cup Additions(5) }

\* `new target`
News ==
    { Composite(1, "New", <<target>>) :
        target \in Leaves(3)
            \cup { NameOf(3, n) :
                     n \in { NameResolved(4, <<"C">>, <<"C">>),
                             NameResolved(4, <<"n", BS, "D">>, <<"D">>),
                             NameUnresolved(4, <<"C">>, "Identifier"),
                             NameSpecial(4, "Static",
                                         <<"s", "t", "a", "t", "i", "c">>) } } }

\* the item at position j of an array literal
Items(j) ==
    { Item("Skipped", <<>>) }
    \cup { Item("Value", <<v>>) : v \in Leaves(10 * j + 2) }
    \cup { Item("KeyValue", <<k, v>>) : k \in Keys(10 * j), v \in Leaves(10 * j + 2) }

RECURSIVE ItemLists(_)
\* the item lists of at most n items
ItemLists(n) ==
    IF n = 0 THEN { <<>> }
    ELSE ItemLists(n - 1)
         \cup { Append(items, item) :
                  items \in { l \in ItemLists(n - 1) : Len(l) = n - 1 },
                  item \in Items(n) }

Arrays == { Composite(1, "Array", items) : items \in ItemLists(MaxItems) }

\* a parameter `$symbol`, `data_type $symbol` or `data_type ...$symbol`
Parameter(symbol, data_type, variadic) ==
    [Expr(0, 0, "Parameter") EXCEPT !.symbol = symbol, !.data_type = data_type,
                                    !.variadic = variadic]

\* the parameter lists of the inputs
ParameterLists ==
    { <<>>,
      <<Parameter(<<"$", "a">>, None, FALSE)>>,
      <<Parameter(<<"$", "p">>, Some(Ty("Integer")), FALSE),
        Parameter(<<"$", "q">>, Some(Ty("Float")), TRUE)>> }

\* `$symbol = literal`, with the ids i to i + 5
Assign(i, symbol, literal) ==
    Composite(i, "AssignmentOperation",
              <<Variable(i + 2, symbol), Literal(i + 4, literal, <<"1">>)>>)

\* the bodies of the inputs
Bodies ==
    { <<>>,
      <<Assign(31, <<"$", "a">>, "Float")>>,
      <<Assign(31, <<"$", "b">>, "Integer"), Variable(37, <<"$", "a">>)>> }

\* a function statement, a closure or an arrow function: the parameter list
\* and the body
Callables ==
    { Composite(21, kind, <<Item("Parameters", parameters)>> \o body) :
        kind \in {"Function", "Closure", "ArrowFunction"},
        parameters \in ParameterLists, body \in Bodies }

\* the ASTs the engine is given: one statement, an assignment and a use of
\* the variable, or a callable, alone or behind an assignment
Asts ==
    { <<e>> : e \in Assignments \cup News \cup Arrays \cup Callables }
    \cup { <<e, Variable(11, <<"$", "a">>)>> : e \in Assignments }
    \cup { <<Assign(11, <<"$", "a">>, "Integer"), e>> : e \in Callables }

InitEngine ==
    /\ StateNew(<<"Eof">>)
    /\ spans = Layout(<<"Eof">>, 1)
    /\ EngineIdle
    /\ interface = [stage |-> "none", members |-> <<>>]
    /\ parsed = <<>>
    /\ level = LevelIdle
    /\ ended = <<>>
    /\ ast \in Asts
    /\ scopes = <<>>
    /\ union = [types |-> <<>>, result |-> <<>>]
    /\ classes \in { {}, { <<"C">> } }

NextEngine == Infer

SpecEngine == InitEngine /\ [][NextEngine]_vars

(***************************************************************************)
(* The type engine: simplify_union on lists of types.                      *)
(***************************************************************************)
MaxTypes == 3  \* types of a list given to simplify_union

\* the call simplify_union(types) of determine_array_type
Simplify ==
    /\ union.result = None
    /\ union' = [union EXCEPT !.result = Some(simplify_union(union.types))]
    /\ last' = LastOf("simplify_union")
    /\ UNCHANGED <<engVars, synVars, ast, scopes, classes, ended, id, issued, nsVars,
                   imports, attrVars, comments, lexVars, diagnostics>>

\* the types of the lists: the types the visits record, a typed array and a
\* union among them
Types ==
    { Ty("Integer"), Ty("Float"), Ty("Missing"), Mixed,
      LiteralString(<<"x">>), Named(<<"C">>, <<"C">>),
      TypedArray(Ty("Integer"), Ty("Float")),
      Union(<<Ty("Integer"), Ty("Float")>>) }

\* the lists of at most MaxTypes types
TypeLists == UNION { [1..n -> Types] : n \in 0..MaxTypes }

InitUnion ==
    /\ StateNew(<<"Eof">>)
    /\ spans = Layout(<<"Eof">>, 1)
    /\ EngineIdle
    /\ interface = [stage |-> "none", members |-> <<>>]
    /\ parsed = <<>>
    /\ level = LevelIdle
    /\ ended = <<>>
    /\ ast = <<>>
    /\ scopes = <<>>
    /\ union \in { [types |-> types, result |-> None] : types \in TypeLists }
    /\ classes = {}

NextUnion == Simplify

SpecUnion == InitUnion /\ [][NextUnion]_vars

(***************************************************************************)
(* Parsing: attributes in front of statements and expressions.  A parser   *)
(* P is the record of the State fields a production reads and writes.      *)
(***************************************************************************)
ParserOf ==
    [cursor |-> cursor, id |-> id, issued |-> issued, comments |-> comments,
     attributes |-> attributes, pushed |-> pushed, drained |-> drained,
     diagnostics |-> diagnostics]

\* State::current().kind
current_kind(P) == tokens[P.cursor]

\* State::next on a parser, the fields the lexer step st leaves behind
advanced(P, st) ==
    [P EXCEPT !.cursor = st.cursor, !.id = st.id, !.issued = st.issued,
              !.comments = st.comments]

\* State::next on a parser
next(P) ==
    advanced(P, collect_comments(tokens,
                    [cursor |-> LexerNext(tokens, P.cursor), id |-> P.id,
                     issued |-> P.issued, comments |-> P.comments]))

\* State::id on a parser
draw_id(P) == [P EXCEPT !.id = NextId(P.id), !.issued = Append(@, NextId(P.id))]

\* State::diagnostic
diagnostic(P, kind) == [P EXCEPT !.diagnostics = Append(@, kind)]

\* Parser::attribute
attribute(P, attr) ==
    [P EXCEPT !.attributes = Append(@, attr), !.pushed = Append(@, attr)]

\* Parser::get_attributes
get_attributes(P) ==
    [P EXCEPT !.attributes = SwapOut(P.attributes).left,
              !.drained = @ \o SwapOut(P.attributes).taken]

\* State::comments on a parser: the buffer is swapped out into a CommentGroup
take_comments(P) == [draw_id(P) EXCEPT !.comments = <<>>]

\* utils::skip(kind): the token is consumed when it is the expected one, and
\* an ExpectedToken diagnostic is emitted otherwise
skip(P, kind) ==
    IF current_kind(P) = kind THEN next(P) ELSE diagnostic(P, "ExpectedToken")

\* names::parse_full_name_including_self: a name token is consumed and
\* resolved; anything else gives a missing name and a diagnostic
parse_full_name_including_self(P) ==
    IF current_kind(P) \in {"Identifier", "QualifiedIdentifier", "Self"}
    THEN draw_id(next(P))
    ELSE draw_id(diagnostic(P, "ExpectedToken"))

RECURSIVE skip_arguments(_)
\* the arguments of an argument list, up to its right parenthesis
skip_arguments(P) ==
    IF current_kind(P) \in {"RightParen", "Eof"} THEN P
    ELSE skip_arguments(next(P))

\* parse_argument_list
parse_argument_list(P) ==
    draw_id(skip(skip_arguments(skip(P, "LeftParen")), "RightParen"))

RECURSIVE gather_members(_, _)
\* Parser::gather_attributes, after the comma behind a member: a trailing
\* comma ends the group, anything else is the next member
member_after_comma(P, members) ==
    IF current_kind(P) = "RightBracket"
    THEN [P |-> P, members |-> members + 1]
    ELSE gather_members(P, members + 1)

\* Parser::gather_attributes, behind a member: [P, members]
member_end(P, members) ==
    IF current_kind(P) = "Comma"
    THEN member_after_comma(next(P), members)
    ELSE [P |-> P, members |-> members + 1]

\* Parser::gather_attributes, behind the name of a member: its argument list
\* when there is one, and its id
member_arguments(P, members) ==
    member_end(draw_id(IF current_kind(P) = "LeftParen"
                       THEN parse_argument_list(P)
                       ELSE P),
               members)

\* Parser::gather_attributes, the loop over the members of one group
gather_members(P, members) ==
    member_arguments(parse_full_name_including_self(P), members)

\* Parser::attribute with the group of id P.id
push_group(P, members) == attribute(P, [id |-> P.id, members |-> members])

\* Parser::gather_attributes, the end of one group m = [P, members]: the
\* closing bracket, the id of the group and the push to the buffer
close_group(m) == push_group(draw_id(skip(m.P, "RightBracket")), m.members)

\* Parser::gather_attributes, one `#[...]` group
gather_group(P) == close_group(gather_members(next(P), 0))

RECURSIVE gather_attributes(_)
\* Parser::gather_attributes: [P, gathered]; behind a group the function
\* returns what its call on the rest returns
gather_attributes(P) ==
    IF current_kind(P) # "Attribute" THEN [P |-> P, gathered |-> FALSE]
    ELSE gather_attributes(gather_group(P))

RECURSIVE peek_nth(_, _, _)
\* State::peek_nth, from position c with `target` tokens counted so far: the
\* kind of the n-th token that is no line, block or hash comment, the last
\* token (Eof) when there are fewer
peek_nth(c, target, n) ==
    IF c > Len(tokens) THEN tokens[Len(tokens)]
    ELSE IF tokens[c] \in {"SingleLineComment", "MultiLineComment", "HashMarkComment"}
    THEN peek_nth(c + 1, target, n)
    ELSE IF target = n THEN tokens[c]
    ELSE peek_nth(c + 1, target + 1, n)

\* State::peek().kind
peek_kind(P) == peek_nth(P.cursor + 1, 1, 1)

RECURSIVE skip_all(_, _)
\* the tokens of kinds, skipped one after the other
skip_all(P, kinds) ==
    IF kinds = <<>> THEN P ELSE skip_all(skip(P, Head(kinds)), Tail(kinds))

\* the optional `static` in front of a closure
skip_static(P) == IF current_kind(P) = "Static" THEN next(P) ELSE P

\* functions::anonymous_function: the closure takes the buffered attributes
anonymous_function(P) ==
    draw_id(skip_all(skip_static(get_attributes(P)),
            <<"Function", "LeftParen", "RightParen", "LeftBrace", "RightBrace">>))

\* functions::arrow_function, up to its body: the arrow function takes the
\* buffered attributes
arrow_function_head(P) ==
    skip_all(skip_static(get_attributes(P)),
             <<"Fn", "LeftParen", "RightParen", "DoubleArrow">>)

\* the current token starts an anonymous function
at_anonymous_function(P) ==
    \/ current_kind(P) = "Function"
    \/ current_kind(P) = "Static" /\ peek_kind(P) = "Function"

\* the current token starts an arrow function
at_arrow_function(P) ==
    \/ current_kind(P) = "Fn"
    \/ current_kind(P) = "Static" /\ peek_kind(P) = "Fn"

RECURSIVE left(_)
\* functions::arrow_function: the head and the body expression
arrow_function(P) == draw_id(left(arrow_function_head(P)))

\* expressions::attributes, the match on the token behind the groups: any
\* target but a closure gives a diagnostic and leaves the buffer as it is
attributes_target(P) ==
    IF at_anonymous_function(P) THEN anonymous_function(P)
    ELSE IF at_arrow_function(P) THEN arrow_function(P)
    ELSE diagnostic(P, "InvalidTargetForAttributes")

\* expressions::attributes
expression_attributes(P) == attributes_target(gather_attributes(P).P)

\* a mutant of unexpected_token: a right brace is consumed as well
unexpected_token_consumed(P) == next(diagnostic(P, "UnexpectedToken"))

\* expressions::unexpected_token: the diagnostic, and the token is consumed
\* unless it is a right brace
unexpected_token(P) ==
    IF current_kind(P) = "RightBrace" THEN diagnostic(P, "UnexpectedToken")
    ELSE next(diagnostic(P, "UnexpectedToken"))

\* expressions::left, for the operands of the model's inputs
left(P) ==
    IF current_kind(P) = "Eof" THEN diagnostic(P, "UnexpectedEndOfFile")
    ELSE IF current_kind(P) = "Attribute" THEN expression_attributes(P)
    ELSE IF at_anonymous_function(P) THEN anonymous_function(P)
    ELSE IF at_arrow_function(P) THEN arrow_function(P)
    ELSE IF current_kind(P) = "LiteralInteger" THEN draw_id(next(P))
    ELSE IF current_kind(P) = "Variable" THEN next(P)
    ELSE unexpected_token(P)

\* the operand of an expression statement or of echo
operand(P) == left(IF current_kind(P) = "Echo" THEN next(P) ELSE P)

\* one statement behind its attribute groups; the comment buffer is drained
\* into it
statement(P) ==
    IF current_kind(P) = "OpenTag"
    THEN take_comments(draw_id(next(P)))
    ELSE take_comments(draw_id(skip(operand(P), "SemiColon")))

\* the statement dispatcher: attribute groups are gathered and one statement
\* is parsed
parse_statement(P) == statement(gather_attributes(P).P)

\* the parser's fields written back to the state
Becomes(P) ==
    /\ cursor' = P.cursor
    /\ id' = P.id
    /\ issued' = P.issued
    /\ comments' = P.comments
    /\ attributes' = P.attributes
    /\ pushed' = P.pushed
    /\ drained' = P.drained
    /\ diagnostics' = P.diagnostics

\* one statement of the top-level loop
ParseStatement ==
    /\ Running
    /\ last.op # "eof"
    /\ current_kind(ParserOf) # "Eof"
    /\ Becomes(parse_statement(ParserOf))
    /\ last' = LastOf("statement")
    /\ UNCHANGED <<engVars, synVars, infVars, nsVars, imports, tokens, spans>>

\* the top-level loop ends at Eof
ParseEnd ==
    /\ Running
    /\ last.op # "eof"
    /\ current_kind(ParserOf) = "Eof"
    /\ last' = LastOf("eof")
    /\ UNCHANGED <<engVars, synVars, infVars, nsVars, imports, attrVars, lexVars, id, issued,
                   comments, diagnostics>>

\* the statements of the inputs
Segments ==
    { <<"Echo", "LiteralInteger", "SemiColon">>,
      <<"SingleLineComment", "Echo", "DocBlockComment", "LiteralInteger",
        "SemiColon", "HashMarkComment">>,
      <<"Echo", "Attribute", "Identifier", "RightBracket", "LiteralInteger",
        "SemiColon">>,
      <<"Echo", "Attribute", "Identifier", "Comma", "RightBracket",
        "Attribute", "Identifier", "Comma", "Identifier", "RightBracket",
        "Function", "LeftParen", "RightParen", "LeftBrace", "RightBrace",
        "SemiColon">>,
      <<"Echo", "Attribute", "Identifier", "LeftParen", "LiteralInteger",
        "RightParen", "RightBracket", "Static", "Function", "LeftParen",
        "RightParen", "LeftBrace", "RightBrace", "SemiColon">>,
      <<"Echo", "Attribute", "Identifier", "SemiColon">>,
      <<"Echo", "Attribute", "Identifier", "RightBracket", "Fn", "LeftParen",
        "RightParen", "DoubleArrow", "LiteralInteger", "SemiColon">>,
      <<"Function", "LeftParen", "RightParen", "LeftBrace", "RightBrace",
        "SemiColon">> }

RECURSIVE Programs(_)
\* the inputs of at most n statements
Programs(n) ==
    IF n = 0 THEN { <<>> }
    ELSE Programs(n - 1)
         \cup { p \o s : p \in Programs(n - 1), s \in Segments }

ParsedStreams ==
    { <<"OpenTag">> \o p \o <<"Eof">> : p \in Programs(MaxStatements) }

InitParse == \E toks \in ParsedStreams : InitWith(toks)

NextParse ==
    \/ ParseStatement
    \/ ParseEnd

SpecParse == InitParse /\ [][NextParse]_vars

(***************************************************************************)
(* Parser::gather_attributes on its own.                                   *)
(***************************************************************************)
MaxGroups == 2  \* attribute groups in front of the construct

\* one call of Parser::gather_attributes; last.value is 1 when it returns
\* true and 0 when it returns false
GatherAttributes ==
    /\ Running
    /\ last.op = "new"
    /\ Becomes(gather_attributes(ParserOf).P)
    /\ last' = [LastOf("gather_attributes") EXCEPT
                   !.value = IF gather_attributes(ParserOf).gathered THEN 1 ELSE 0]
    /\ UNCHANGED <<engVars, synVars, infVars, nsVars, imports, tokens, spans>>

\* the attribute groups of the inputs: one member, a trailing comma, two
\* members, an argument list, a missing `]`
GroupSegments ==
    { <<"Attribute", "Identifier", "RightBracket">>,
      <<"Attribute", "Identifier", "Comma", "RightBracket">>,
      <<"Attribute", "Identifier", "Comma", "Identifier", "RightBracket">>,
      <<"Attribute", "Identifier", "LeftParen", "LiteralInteger", "RightParen",
        "RightBracket">>,
      <<"Attribute", "Identifier">> }

RECURSIVE Groups(_)
\* the inputs of at most n attribute groups
Groups(n) ==
    IF n = 0 THEN { <<>> }
    ELSE Groups(n - 1)
         \cup { g \o s : g \in Groups(n - 1), s \in GroupSegments }

\* the constructs behind the groups
Constructs == { <<>>, <<"LiteralInteger">>, <<"Function", "LeftParen", "RightParen">> }

GatheredStreams ==
    { g \o construct \o <<"Eof">> : g \in Groups(MaxGroups), construct \in Constructs }

InitGather == \E toks \in GatheredStreams : InitWith(toks)

NextGather == GatherAttributes

SpecGather == InitGather /\ [][NextGather]_vars

(***************************************************************************)
(* parse_break_statement, parse_continue_statement and the loop level.     *)
(* Every call of parse_loop_level is one step; level.calls keeps the       *)
(* cursor each call has started at, the calls on the stack first.          *)
(***************************************************************************)
MaxCalls == 3  \* calls of parse_loop_level on the stack

\* parse_break_statement and parse_continue_statement up to
\* maybe_parse_loop_level: no level in front of `;` or a close tag
LoopOpen ==
    /\ Running
    /\ level.stage = "none"
    /\ current_kind(ParserOf) \in {"Break", "Continue"}
    /\ Becomes(next(ParserOf))
    /\ level' = [level EXCEPT
                    !.stage = IF current_kind(next(ParserOf)) \in {"SemiColon", "CloseTag"}
                              THEN "ending" ELSE "level"]
    /\ last' = LastOf("loop")
    /\ UNCHANGED <<engVars, infVars, interface, parsed, nsVars, imports, tokens, spans>>

\* parse_loop_level, an integer literal: the token is consumed and the level
\* and its literal take their ids
literal_level(P) == draw_id(draw_id(next(P)))

\* parse_loop_level, anything else: utils::parenthesized skips the left
\* parenthesis and calls parse_loop_level
parenthesized_open(P) == skip(P, "LeftParen")

\* utils::parenthesized behind the level, and the id of the level
parenthesized_close(P) == draw_id(skip(P, "RightParen"))

\* one call of parse_loop_level
LoopLevel ==
    /\ Running
    /\ level.stage = "level"
    /\ Len(level.calls) < MaxCalls
    /\ IF current_kind(ParserOf) = "LiteralInteger"
       THEN /\ Becomes(literal_level(ParserOf))
            /\ level' = [level EXCEPT !.stage = "return",
                                      !.calls = Append(@, cursor)]
       ELSE /\ Becomes(parenthesized_open(ParserOf))
            /\ level' = [level EXCEPT !.calls = Append(@, cursor)]
    /\ last' = LastOf("parse_loop_level")
    /\ UNCHANGED <<engVars, infVars, interface, parsed, nsVars, imports, tokens, spans>>

\* the return of one parenthesized call of parse_loop_level; the call of the
\* literal has returned before
LoopLevelReturn ==
    /\ Running
    /\ level.stage = "return"
    /\ level.returned + 1 < Len(level.calls)
    /\ Becomes(parenthesized_close(ParserOf))
    /\ level' = [level EXCEPT !.returned = @ + 1]
    /\ last' = LastOf("parenthesized")
    /\ UNCHANGED <<engVars, infVars, interface, parsed, nsVars, imports, tokens, spans>>

\* utils::skip_ending: `;` or a close tag
skip_ending(P) ==
    IF current_kind(P) \in {"SemiColon", "CloseTag"} THEN next(P)
    ELSE diagnostic(P, "ExpectedToken")

\* parse_break_statement and parse_continue_statement behind the level
LoopClose ==
    /\ Running
    /\ \/ level.stage = "ending"
       \/ level.stage = "return" /\ level.returned + 1 = Len(level.calls)
    /\ Becomes(draw_id(skip_ending(ParserOf)))
    /\ level' = [level EXCEPT !.stage = "done"]
    /\ last' = LastOf("statement")
    /\ UNCHANGED <<engVars, infVars, interface, parsed, nsVars, imports, tokens, spans>>

\* the levels and the endings of the inputs
LevelSegments ==
    { <<>>,
      <<"LiteralInteger">>,
      <<"LeftParen", "LiteralInteger", "RightParen">>,
      <<"LeftParen", "LeftParen", "LiteralInteger", "RightParen", "RightParen">>,
      <<"LeftParen", "LiteralInteger">>,
      <<"Identifier">>,
      <<"LeftParen", "Identifier", "RightParen">> }

EndingSegments == { <<>>, <<"SemiColon">>, <<"CloseTag">> }

LoopStreams ==
    { <<keyword>> \o l \o e \o <<"Eof">> :
        keyword \in {"Break", "Continue"}, l \in LevelSegments, e \in EndingSegments }

InitLoop == \E toks \in LoopStreams : InitWith(toks)

NextLoop ==
    \/ LoopOpen
    \/ LoopLevel
    \/ LoopLevelReturn
    \/ LoopClose

SpecLoop == InitLoop /\ [][NextLoop]_vars

(***************************************************************************)
(* Parser::parse_interface.  The member loop runs one iteration per step,  *)
(* since the production returns only when the loop is left.                *)
(***************************************************************************)
MaxMembers == 3  \* iterations of the member loop in one behaviour

\* names::parse_type_name
parse_type_name(P) ==
    IF current_kind(P) = "Identifier"
    THEN draw_id(next(P))
    ELSE draw_id(diagnostic(P, "ExpectedToken"))

\* names::parse_full_name
parse_full_name(P) ==
    IF current_kind(P) \in {"Identifier", "QualifiedIdentifier"}
    THEN draw_id(next(P))
    ELSE draw_id(diagnostic(P, "ExpectedToken"))

RECURSIVE at_least_one_comma_separated_no_trailing(_)
\* utils::at_least_one_comma_separated_no_trailing, behind one parent
parent_end(P) ==
    IF current_kind(P) = "Comma"
    THEN at_least_one_comma_separated_no_trailing(next(P))
    ELSE P

\* utils::at_least_one_comma_separated_no_trailing over names::parse_full_name
at_least_one_comma_separated_no_trailing(P) == parent_end(parse_full_name(P))

\* parse_interface: the optional `extends` list and its id
interface_extends(P) ==
    IF current_kind(P) = "Extends"
    THEN draw_id(at_least_one_comma_separated_no_trailing(next(P)))
    ELSE P

\* parse_interface up to the member loop: the keyword, the name, the parents,
\* the buffered attributes and the left brace
interface_head(P) ==
    skip(get_attributes(interface_extends(parse_type_name(skip(P, "Interface")))),
         "LeftBrace")

\* classes::parse_classish_member for the members of the model's inputs: a
\* method or a constant declaration.  At any other token the member is
\* missing: a diagnostic is emitted and the token is stepped over or not
\* (advance); State::next stays at Eof
parse_classish_member(P, advance) ==
    IF current_kind(P) = "Function"
    THEN draw_id(skip_all(P, <<"Function", "Identifier", "LeftParen",
                               "RightParen", "SemiColon">>))
    ELSE IF current_kind(P) = "Const"
    THEN draw_id(skip_all(P, <<"Const", "Identifier", "Equals",
                               "LiteralInteger", "SemiColon">>))
    ELSE draw_id(IF advance
                 THEN next(diagnostic(P, "ExpectedToken"))
                 ELSE diagnostic(P, "ExpectedToken"))

\* the member parse_classish_member returns at the token kind
MemberAt(kind, i) ==
    [id |-> i,
     kind |-> IF kind = "Function" THEN "Method"
              ELSE IF kind = "Const" THEN "Constant" ELSE "Missing"]

\* parse_interface, from the statement dispatcher (which gathers the
\* attribute groups) to the left brace
InterfaceOpen ==
    /\ Running
    /\ interface.stage = "none"
    /\ Becomes(interface_head(gather_attributes(ParserOf).P))
    /\ interface' = [interface EXCEPT !.stage = "members"]
    /\ last' = LastOf("interface")
    /\ UNCHANGED <<engVars, infVars, parsed, level, nsVars, imports, tokens, spans>>

\* parse_interface, one iteration of `while current != RightBrace`
InterfaceMember ==
    \E advance \in BOOLEAN :
        /\ Running
        /\ interface.stage = "members"
        /\ current_kind(ParserOf) # "RightBrace"
        /\ Len(interface.members) < MaxMembers
        /\ Becomes(parse_classish_member(ParserOf, advance))
        /\ interface' =
              [interface EXCEPT !.members =
                  Append(@, MemberAt(current_kind(ParserOf),
                                     parse_classish_member(ParserOf, advance).id))]
        /\ last' = [LastOf("member") EXCEPT
                        !.token = Token(current_kind(ParserOf), <<>>),
                        !.value = cursor]
        /\ UNCHANGED <<engVars, infVars, parsed, level, nsVars, imports, tokens, spans>>

\* parse_interface behind the member loop: the right brace, the ids of the
\* body and of the statement
InterfaceClose ==
    /\ Running
    /\ interface.stage = "members"
    /\ current_kind(ParserOf) = "RightBrace"
    /\ Becomes(draw_id(draw_id(skip(ParserOf, "RightBrace"))))
    /\ interface' = [interface EXCEPT !.stage = "done"]
    /\ last' = LastOf("interface_end")
    /\ UNCHANGED <<engVars, infVars, parsed, level, nsVars, imports, tokens, spans>>

\* the members of the inputs, and a stray token
MemberSegments ==
    { <<"Function", "Identifier", "LeftParen", "RightParen", "SemiColon">>,
      <<"Const", "Identifier", "Equals", "LiteralInteger", "SemiColon">>,
      <<"SemiColon">> }

RECURSIVE MemberLists(_)
\* the bodies of at most n members
MemberLists(n) ==
    IF n = 0 THEN { <<>> }
    ELSE MemberLists(n - 1)
         \cup { b \o m : b \in MemberLists(n - 1), m \in MemberSegments }

\* interfaces with and without attributes, parents and the closing brace
InterfaceStreams ==
    { a \o <<"Interface", "Identifier">> \o e \o <<"LeftBrace">> \o b \o c \o <<"Eof">> :
        a \in { <<>>, <<"Attribute", "Identifier", "RightBracket">> },
        e \in { <<>>, <<"Extends", "Identifier", "Comma", "Identifier">> },
        b \in MemberLists(MaxMembers - 1),
        c \in { <<>>, <<"RightBrace">> } }

InitInterface == \E toks \in InterfaceStreams : InitWith(toks)

NextInterface ==
    \/ InterfaceOpen
    \/ InterfaceMember
    \/ InterfaceClose

SpecInterface == InitInterface /\ [][NextInterface]_vars

(***************************************************************************)
(* The expression engine: for_precedence, left and postfix.  A production  *)
(* returns r = [P, e]: the parser behind the expression and the node.      *)
(***************************************************************************)
MaxOperators == 2  \* operators between the operands of a parsed expression

\* Span::combine
combine(a, b) ==
    Span(IF a.start < b.start THEN a.start ELSE b.start,
         IF a.end > b.end THEN a.end ELSE b.end)

\* Expression::new: span is the span of the node, inner the span field of the
\* node's kind; the operands are options
Expression(kind, op, span, inner, lhs, then, rhs) ==
    [kind |-> kind, op |-> op, span |-> span, inner |-> inner,
     left |-> lhs, then |-> then, right |-> rhs]

\* Expression::missing, Expression::noop and the other nodes without operands
Leaf(kind, span) == Expression(kind, "", span, span, <<>>, <<>>, <<>>)

\* the span of State::current() and of State::previous()
current_span(P) == spans[P.cursor]
previous_span(P) == spans[IF P.cursor > 1 THEN P.cursor - 1 ELSE P.cursor]

\* internal::precedences::Precedence, in the order of its variants
Precedence ==
    [Lowest |-> 0, Assignment |-> 1, Ternary |-> 2, BitwiseAnd |-> 3,
     LtGt |-> 4, AddSub |-> 5, MulDivMod |-> 6, Instanceof |-> 7, Pow |-> 8,
     IncDec |-> 9, CallDim |-> 10, ObjectAccess |-> 11]

\* Precedence::associativity
associativity(q) ==
    IF q \in {Precedence.Assignment, Precedence.Pow} THEN "Right"
    ELSE IF q = Precedence.LtGt THEN "Non"
    ELSE "Left"

\* is_infix, is_postfix (the kinds of the model's inputs)
is_infix(kind) ==
    kind \in {"Plus", "Minus", "Asterisk", "Pow", "LessThan", "Equals",
              "Ampersand", "Question", "QuestionColon", "Instanceof"}
is_postfix(kind) == kind \in {"Increment", "LeftParen", "DoubleColon", "Arrow"}

\* Precedence::infix
infix_precedence(kind) ==
    IF kind \in {"Plus", "Minus"} THEN Precedence.AddSub
    ELSE IF kind = "Asterisk" THEN Precedence.MulDivMod
    ELSE IF kind = "Pow" THEN Precedence.Pow
    ELSE IF kind = "LessThan" THEN Precedence.LtGt
    ELSE IF kind = "Equals" THEN Precedence.Assignment
    ELSE IF kind = "Ampersand" THEN Precedence.BitwiseAnd
    ELSE IF kind = "Instanceof" THEN Precedence.Instanceof
    ELSE Precedence.Ternary

\* Precedence::postfix
postfix_precedence(kind) ==
    IF kind = "LeftParen" THEN Precedence.CallDim
    ELSE IF kind \in {"DoubleColon", "Arrow"} THEN Precedence.ObjectAccess
    ELSE Precedence.IncDec

\* a mutant of Breaks: equal binding power always stops
BreaksOnEqual(q, p) == q <= p

\* for_precedence: the loop is left in front of an infix operator of binding
\* power q
Breaks(q, p) == q < p \/ (q = p /\ associativity(q) = "Left")

\* expressions::left, the node it returns
left_node(P) ==
    IF current_kind(P) = "Variable" THEN Leaf("Variable", current_span(P))
    ELSE IF current_kind(P) = "LiteralInteger" THEN Leaf("Literal", current_span(P))
    ELSE Leaf("Missing", current_span(P))

\* expressions::left, the parser and the node
left_expression(P) == [P |-> left(P), e |-> left_node(P)]

\* expressions::postfix, its end: the node of kind on the target lhs, with the
\* member it names; the span runs from the operator to the token in front of
\* the cursor of Q
postfix_node(kind, op, lhs, member, start_span, Q) ==
    [P |-> Q,
     e |-> Expression(kind, op,
               Span(start_span.start, previous_span(Q).end), start_span,
               <<lhs>>, <<>>, member)]

\* parameters::argument_list: the list is consumed up to its right parenthesis
argument_list(P) == skip(skip_arguments(skip(P, "LeftParen")), "RightParen")

\* expressions::postfix, `(...)` closure creation: the two tokens behind the
\* left parenthesis at the cursor are an ellipsis and a right parenthesis
is_closure_creation(P) ==
    /\ peek_nth(P.cursor + 1, 1, 1) = "Ellipsis"
    /\ peek_nth(P.cursor + 1, 1, 2) = "RightParen"

\* expressions::postfix at a left parenthesis: the closure creation or the
\* call of the form (Function, StaticMethod, StaticVariableMethod, Method)
call_or_closure_creation(form, lhs, member, start_span, P) ==
    IF is_closure_creation(P)
    THEN postfix_node(form \o "ClosureCreation", "LeftParen", lhs, member,
             start_span, skip_all(P, <<"LeftParen", "Ellipsis", "RightParen">>))
    ELSE postfix_node(form \o "Call", "LeftParen", lhs, member, start_span,
             argument_list(P))

\* expressions::postfix, the member behind `::` or `->`: the parser behind it
\* (a variable or an identifier is consumed; anything else is consumed with
\* an ExpectedToken diagnostic)
member_parser(Q) ==
    IF current_kind(Q) \in {"Variable", "Identifier"} THEN next(Q)
    ELSE next(diagnostic(Q, "ExpectedToken"))

\* expressions::postfix, the member behind `::` or `->`: its node
member_node(Q) ==
    Leaf(IF current_kind(Q) \in {"Variable", "Identifier"} THEN current_kind(Q)
         ELSE "Missing",
         current_span(Q))

\* expressions::postfix, DoubleColon: Q is the parser at the member; a missing
\* member reaches unreachable!()
static_member(lhs, start_span, Q) ==
    IF member_node(Q).kind = "Missing"
    THEN postfix_node("Unreachable", "DoubleColon", lhs, <<member_node(Q)>>,
                      start_span, member_parser(Q))
    ELSE IF current_kind(member_parser(Q)) = "LeftParen"
    THEN call_or_closure_creation(
             IF member_node(Q).kind = "Variable" THEN "StaticVariableMethod"
             ELSE "StaticMethod",
             lhs, <<member_node(Q)>>, start_span, member_parser(Q))
    ELSE postfix_node(IF member_node(Q).kind = "Variable"
                      THEN "StaticPropertyFetch" ELSE "ConstantFetch",
                      "DoubleColon", lhs, <<member_node(Q)>>, start_span,
                      member_parser(Q))

\* expressions::postfix, Arrow: Q is the parser at the member
object_member(lhs, start_span, Q) ==
    IF current_kind(member_parser(Q)) = "LeftParen"
    THEN call_or_closure_creation("Method", lhs, <<member_node(Q)>>,
                                  start_span, member_parser(Q))
    ELSE postfix_node("PropertyFetch", "Arrow", lhs, <<member_node(Q)>>,
                      start_span, member_parser(Q))

\* expressions::postfix: P is the parser at the postfix operator
postfix(lhs, start_span, P) ==
    IF current_kind(P) = "LeftParen"
    THEN call_or_closure_creation("Function", lhs, <<>>, start_span, P)
    ELSE IF current_kind(P) = "DoubleColon"
    THEN static_member(lhs, start_span, next(P))
    ELSE IF current_kind(P) = "Arrow"
    THEN object_member(lhs, start_span, next(P))
    ELSE postfix_node("PostIncrement", "Increment", lhs, <<>>, start_span,
                      next(P))

RECURSIVE for_precedence(_, _)
\* for_precedence, the end of an infix arm: the node of kind between lhs and
\* the right operand rr.e; its span runs from the token behind the operator
\* to the token in front of the cursor
infix_node(kind, op, lhs, then, start_span, rr) ==
    [P |-> rr.P,
     e |-> Expression(kind, op,
               Span(start_span.start, previous_span(rr.P).end),
               combine(lhs.span, rr.e.span), <<lhs>>, then, <<rr.e>>)]

\* expressions::create
create(P) == for_precedence(P, Precedence.Lowest)

\* a mutant of ternary_else: `else` is parsed without the colon being skipped
ternary_else_unskipped(lhs, start_span, rt) ==
    infix_node("Ternary", "Question", lhs, <<rt.e>>, start_span, create(rt.P))

\* for_precedence, `?` behind its `then`: the colon is skipped and `else` is
\* parsed
ternary_else(lhs, start_span, rt) ==
    infix_node("Ternary", "Question", lhs, <<rt.e>>, start_span,
               create(skip(rt.P, "Colon")))

\* for_precedence, `= &` behind the right operand: the assigned Reference node
reference_node(start_span, rr) ==
    [P |-> rr.P,
     e |-> Expression("Reference", "Ampersand",
               Span(start_span.start, rr.e.span.end),
               combine(start_span, rr.e.span), <<>>, <<>>, <<rr.e>>)]

\* the reserved words the Instanceof arms take as the right operand
ReservedNames == {"Self", "Parent", "Static", "Enum", "From"}

\* for_precedence, the Instanceof arms: the node built from the reserved word
\* at the cursor (Self_, Parent, Static, or the identifier of enum and from)
reserved_node(Q) ==
    Leaf(IF current_kind(Q) \in {"Enum", "From"} THEN "Identifier"
         ELSE current_kind(Q),
         current_span(Q))

\* a mutant of instanceof_reserved: the reserved word goes to the generic arm
instanceof_generic(lhs, Q) ==
    infix_node("Instanceof", "Instanceof", lhs, <<>>, current_span(Q),
               for_precedence(Q, Precedence.Instanceof))

\* for_precedence, the Instanceof arms: the reserved word is consumed and is
\* the right operand
instanceof_reserved(lhs, Q) ==
    infix_node("Instanceof", "Instanceof", lhs, <<>>, current_span(Q),
               [P |-> next(Q), e |-> reserved_node(Q)])

\* for_precedence, the arms of the infix operator kind: Q is the parser behind
\* the operator and q its binding power
infix(lhs, kind, q, Q) ==
    IF kind = "Question" /\ current_kind(Q) = "Colon"
    THEN infix_node("Ternary", "Question", lhs,
                    <<Leaf("Noop", current_span(Q))>>, current_span(Q),
                    create(next(Q)))
    ELSE IF kind = "Question"
    THEN ternary_else(lhs, current_span(Q), create(Q))
    ELSE IF kind = "QuestionColon"
    THEN infix_node("ShortTernary", "QuestionColon", lhs, <<>>,
                    current_span(Q), create(Q))
    ELSE IF kind = "Equals" /\ current_kind(Q) = "Ampersand"
    THEN infix_node("Assign", "Equals", lhs, <<>>, current_span(Q),
                    reference_node(current_span(Q), for_precedence(next(Q), q)))
    ELSE IF kind = "Instanceof" /\ current_kind(Q) \in ReservedNames
    THEN instanceof_reserved(lhs, Q)
    ELSE infix_node(IF kind = "Instanceof" THEN "Instanceof" ELSE "Binary",
                    kind, lhs, <<>>, current_span(Q), for_precedence(Q, q))

\* for_precedence: the diagnostic for a non-associative operator of the
\* binding power of the call
non_associative(P, q, p) ==
    IF q = p /\ associativity(q) = "Non"
    THEN diagnostic(P, "UnexpectedToken")
    ELSE P

RECURSIVE climb(_, _)
\* for_precedence, the loop behind the left operand r.e
climb(r, p) ==
    IF current_kind(r.P) \in {"SemiColon", "Eof"} THEN r
    ELSE IF is_postfix(current_kind(r.P))
    THEN IF postfix_precedence(current_kind(r.P)) < p THEN r
         ELSE climb(postfix(r.e, current_span(r.P), r.P), p)
    ELSE IF is_infix(current_kind(r.P))
    THEN IF Breaks(infix_precedence(current_kind(r.P)), p) THEN r
         ELSE climb(infix(r.e, current_kind(r.P),
                          infix_precedence(current_kind(r.P)),
                          next(non_associative(r.P,
                                   infix_precedence(current_kind(r.P)), p))),
                    p)
    ELSE r

\* for_precedence
for_precedence(P, p) == climb(left_expression(P), p)

\* expressions::create on the input
ParseExpression ==
    /\ Running
    /\ parsed = None
    /\ Becomes(create(ParserOf).P)
    /\ parsed' = Some(create(ParserOf).e)
    /\ last' = LastOf("create")
    /\ UNCHANGED <<engVars, infVars, interface, level, nsVars, imports, tokens, spans>>

\* expressions::left on the input
LeftOperand ==
    /\ Running
    /\ parsed = None
    /\ Becomes(left_expression(ParserOf).P)
    /\ parsed' = Some(left_expression(ParserOf).e)
    /\ last' = LastOf("left")
    /\ UNCHANGED <<engVars, infVars, interface, level, nsVars, imports, tokens, spans>>

\* what stands between two operands of the inputs
OperatorSegments ==
    { <<"Plus">>, <<"Minus">>, <<"Asterisk">>, <<"Pow">>, <<"LessThan">>,
      <<"Equals">>, <<"Equals", "Ampersand">>, <<"Question">>, <<"Colon">>,
      <<"Question", "Colon">>, <<"QuestionColon">>, <<"Increment", "Plus">> }

RECURSIVE Operations(_)
\* an operand followed by at most n operators with their right operands
Operations(n) ==
    IF n = 0 THEN { <<"Variable">> }
    ELSE Operations(n - 1)
         \cup { e \o o \o <<"Variable">> :
                  e \in Operations(n - 1), o \in OperatorSegments }

\* expressions, complete or ending behind an operator, in front of Eof or of
\* a right brace
ExpressionStreams ==
    { e \o o \o c \o <<"Eof">> :
        e \in Operations(MaxOperators),
        o \in OperatorSegments \cup { <<>> },
        c \in { <<>>, <<"RightBrace">> } }

\* the input is laid out with or without whitespace between the tokens
InitExpression ==
    \E toks \in ExpressionStreams, gap \in {0, 1} :
        /\ StateNew(toks)
        /\ spans = Layout(toks, gap)
        /\ EngineIdle
        /\ ProductionsIdle

NextExpression == ParseExpression

SpecExpression == InitExpression /\ [][NextExpression]_vars

\* what stands in front of the left operand of instanceof, its right
\* operand, and what follows it
InstanceofLeads == { <<>>, <<"Variable", "Plus">>, <<"Variable", "Pow">> }
InstanceofRights == ReservedNames \cup {"Variable"}
InstanceofFollowers ==
    { <<>>, <<"SemiColon">>, <<"RightBrace">>, <<"Plus", "Variable">>,
      <<"Asterisk", "Variable">>, <<"Pow", "Variable">>, <<"Increment">>,
      <<"Equals", "Variable">>, <<"Instanceof", "Parent">>,
      <<"Instanceof", "Variable">> }

\* `X instanceof R`, alone or inside a larger expression
InstanceofStreams ==
    { l \o <<"Variable", "Instanceof", r>> \o f \o <<"Eof">> :
        l \in InstanceofLeads, r \in InstanceofRights,
        f \in InstanceofFollowers }

InitInstanceof ==
    \E toks \in InstanceofStreams, gap \in {0, 1} :
        /\ StateNew(toks)
        /\ spans = Layout(toks, gap)
        /\ EngineIdle
        /\ ProductionsIdle

NextInstanceof == ParseExpression

SpecInstanceof == InitInstanceof /\ [][NextInstanceof]_vars

\* what stands between the call target and the left parenthesis
AccessSegments ==
    { <<>>, <<"DoubleColon", "Identifier">>, <<"DoubleColon", "Variable">>,
      <<"Arrow", "Identifier">>, <<"Arrow", "Variable">> }

\* the comments between two tokens of the inputs
TriviaSegments == { <<>>, <<"MultiLineComment">>, <<"DocBlockComment">> }

\* what stands behind the target or the member: nothing, `(...)` or an
\* argument list, with or without comments between the tokens
ParenSegments ==
    { <<>> }
    \cup { <<"LeftParen">> \o c1 \o <<"Ellipsis">> \o c2 \o <<"RightParen">> :
             c1 \in TriviaSegments, c2 \in TriviaSegments }
    \cup { <<"LeftParen">> \o c1 \o a :
             c1 \in TriviaSegments,
             a \in { <<"RightParen">>, <<"Variable", "RightParen">>,
                     <<"Ellipsis", "Variable", "RightParen">>,
                     <<"Ellipsis">> } }

\* a call target with a member, `(...)` or an argument list, alone or as the
\* left operand of an addition
ClosureStreams ==
    { <<"Variable">> \o m \o a \o f \o <<"Eof">> :
        m \in AccessSegments, a \in ParenSegments,
        f \in { <<>>, <<"Plus", "Variable">> } }

InitClosure ==
    \E toks \in ClosureStreams, gap \in {0, 1} :
        /\ StateNew(toks)
        /\ spans = Layout(toks, gap)
        /\ EngineIdle
        /\ ProductionsIdle

NextClosure == ParseExpression

SpecClosure == InitClosure /\ [][NextClosure]_vars

\* tokens no expression starts with
Unexpected == {"RightParen", "Colon", "Comma", "Asterisk", "RightBrace"}

\* what follows the first token of the inputs
Followers ==
    { <<>>, <<"SemiColon">>, <<"RightBrace">>, <<"Comma">>, <<"Variable">>,
      <<"Plus", "Variable">>, <<"Asterisk", "Variable">>, <<"Increment">>,
      <<"Question", "Variable", "Colon", "Variable">> }

\* inputs that start with a token no expression starts with, with an operand
\* or with nothing
RecoveryStreams ==
    { first \o f \o <<"Eof">> :
        first \in { <<kind>> : kind \in Unexpected } \cup { <<"Variable">>, <<>> },
        f \in Followers }

InitRecovery ==
    \E toks \in RecoveryStreams, gap \in {0, 1} :
        /\ StateNew(toks)
        /\ spans = Layout(toks, gap)
        /\ EngineIdle
        /\ ProductionsIdle

\* the input is given to left alone or to create
NextRecovery ==
    \/ LeftOperand
    \/ ParseExpression

SpecRecovery == InitRecovery /\ [][NextRecovery]_vars

(***************************************************************************)
(* Specifications.                                                         *)
(***************************************************************************)
Init == InitWith(<<"Eof">>)

\* the namespace, import and name-resolution operations of State
Next ==
    \/ \E scope \in Scopes : Enter(scope)
    \/ Exit
    \/ \E kind \in UseKinds, name \in ImportNames, alias \in ImportAliases :
          AddImport(kind, name, alias)
    \/ \E token \in NameTokens, kind \in UseKinds :
          id < MaxResolves /\ Resolve(token, kind)

Spec == Init /\ [][Next]_vars

StreamKinds == CommentKinds \cup {"Identifier"}

TokenStreams ==
    { <<"OpenTag">> \o s \o <<"Eof">> :
        s \in UNION { [1..n -> StreamKinds] : n \in 0..MaxLen } }

InitIds == \E toks \in TokenStreams : InitWith(toks)

\* the operations of State that draw ids
NextIds ==
    \/ IdCall
    \/ NextToken
    \/ Comments
    \/ \E token \in NameTokens, kind \in UseKinds :
          id < MaxIds /\ Resolve(token, kind)

SpecIds == InitIds /\ [][NextIds]_vars

(***************************************************************************)
(* Lookahead over the tokens behind the cursor.                            *)
(***************************************************************************)
MaxLookahead == 2  \* the greatest n of a lookahead(n)

\* State::lookahead(n), which is peek_nth(n + 1): the state is left as it is
Lookahead(n) ==
    /\ Running
    /\ last' = [LastOf("lookahead") EXCEPT
                   !.token = Token(peek_nth(cursor + 1, 1, n + 1), <<>>),
                   !.value = n]
    /\ UNCHANGED <<engVars, synVars, infVars, id, issued, nsVars, imports,
                   attrVars, comments, lexVars, diagnostics>>

\* the token stream is read with lookaheads in between
NextPeek ==
    \/ NextToken
    \/ \E n \in 0..MaxLookahead : Lookahead(n)

SpecPeek == InitIds /\ [][NextPeek]_vars

\* the attribute buffer
NextAttrs ==
    \/ \E attr \in AttributeGroups : Attribute(attr)
    \/ GetAttributes

SpecAttrs == Init /\ [][NextAttrs]_vars

(***************************************************************************)
(* Claims.                                                                 *)
(***************************************************************************)
\* C1: within one State every call of id(), direct or made by comments(),
\* collect_comments() or maybe_resolve_identifier(), returns a value strictly
\* greater than every value returned before, so no two nodes share an id.
IdsStrictlyIncrease ==
    /\ \A i, j \in 1..Len(issued) : i < j => issued[i] < issued[j]
    /\ \A i \in 1..Len(comments) :
          /\ comments[i].id # comments[i].inner
          /\ \A j \in 1..Len(comments) :
                i # j => {comments[i].id, comments[i].inner}
                            \cap {comments[j].id, comments[j].inner} = {}

\* C1 witness: ids were drawn by collect_comments and then by a name
\* resolution
IdsDrawnByAll ==
    /\ Len(issued) >= 4
    /\ comments # <<>>
    /\ last.op = "resolve"

\* the segment of a symbol before its first backslash, and what follows it
IsFirstSplit(symbol, first, rest) ==
    /\ symbol = first \o <<BS>> \o rest
    /\ \A i \in 1..Len(first) : first[i] # BS

Prefixes(symbol) == { SubSeq(symbol, 1, n) : n \in 0..Len(symbol) }
Suffixes(symbol) == { SubSeq(symbol, n, Len(symbol)) : n \in 1..(Len(symbol) + 1) }

\* C2: when the import table of the asked kind holds the key, the result is
\* Resolved: the imported target for a plain identifier, the imported target,
\* a backslash and everything after the first backslash for a qualified one;
\* original is the symbol; only the table of that kind is read.
ImportedNameResolved ==
    last.op = "resolve" =>
        LET symbol == last.token.symbol
            table    == imports[last.usekind]
        IN  /\ last.token.kind = "Identifier" /\ symbol \in DOMAIN table
                => /\ ~last.panicked
                   /\ last.name = NameResolved(last.name.id, table[symbol], symbol)
            /\ last.token.kind = "QualifiedIdentifier"
                => \A first \in Prefixes(symbol), rest \in Suffixes(symbol) :
                      IsFirstSplit(symbol, first, rest) /\ first \in DOMAIN table
                        => /\ ~last.panicked
                           /\ last.name =
                                 NameResolved(last.name.id,
                                     table[first] \o <<BS>> \o rest, symbol)

\* C2 witness: a qualified identifier with two backslashes resolved through an
\* aliased import while another kind's table holds a different target
QualifiedResolvedByImport ==
    /\ last.op = "resolve"
    /\ last.token = Token("QualifiedIdentifier", <<"a", BS, "z", BS, "a">>)
    /\ last.usekind = "Function"
    /\ <<"a">> \in DOMAIN imports["Function"]
    /\ <<"a">> \in DOMAIN imports["Normal"]
    /\ imports["Normal"][<<"a">>] # imports["Function"][<<"a">>]
    /\ last.name.variant = "Resolved"

\* the key maybe_resolve_identifier looks up, as the claims state it
ClaimKeyImported(token, table) ==
    IF token.kind = "QualifiedIdentifier"
    THEN \E first \in Prefixes(token.symbol), rest \in Suffixes(token.symbol) :
            IsFirstSplit(token.symbol, first, rest) /\ first \in DOMAIN table
    ELSE token.symbol \in DOMAIN table

\* the innermost scope: the one entered last and not exited yet
InnermostScope == IF stack = <<>> THEN None ELSE Some(stack[Len(stack)])

\* C3 (as stated): with no matching import and kind = Normal or a qualified
\* token, the result is Resolved(namespace + "\" + symbol, symbol), the
\* namespace being the one the identifier lexically appears in (the symbol
\* alone when that namespace has no name).
UnimportedNameJoinsInnermostNamespace ==
    ( /\ last.op = "resolve"
      /\ ~ClaimKeyImported(last.token, imports[last.usekind])
      /\ last.usekind = "Normal" \/ last.token.kind = "QualifiedIdentifier" )
    => /\ ~last.panicked
       /\ last.name =
             NameResolved(last.name.id,
                 IF InnermostScope # None /\ InnermostScope[1].name # None
                 THEN InnermostScope[1].name[1] \o <<BS>> \o last.token.symbol
                 ELSE last.token.symbol,
                 last.token.symbol)

\* C4: for kind Function or Const, a plain identifier with no matching import
\* is Resolved(symbol, symbol) exactly when the namespace stack is empty and
\* Unresolved(symbol, hint) otherwise.
PlainFunctionOrConstFallsBackToGlobalOnly ==
    ( /\ last.op = "resolve"
      /\ last.usekind \in {"Function", "Const"}
      /\ last.token.kind = "Identifier"
      /\ last.token.symbol \notin DOMAIN imports[last.usekind] )
    => /\ ~last.panicked
       /\ stack = <<>> =>
             last.name = NameResolved(last.name.id, last.token.symbol,
                                      last.token.symbol)
       /\ stack # <<>> =>
             last.name = NameUnresolved(last.name.id, last.token.symbol,
                                        last.token.kind)

\* C4 witness: a function name left unresolved inside the unnamed braced
\* namespace although the class imports hold its symbol
PlainFunctionUnresolvedInNamespace ==
    /\ last.op = "resolve"
    /\ last.usekind = "Function"
    /\ last.token = Token("Identifier", <<"a">>)
    /\ <<"a">> \notin DOMAIN imports["Function"]
    /\ <<"a">> \in DOMAIN imports["Normal"]
    /\ stack = <<BracedNamespace(None)>>
    /\ last.name.variant = "Unresolved"

\* C5: get_attributes() returns exactly the groups pushed since the previous
\* drain, in push order, and leaves the buffer empty; every pushed group is
\* returned by exactly one drain.
AttributesDrainedOnce ==
    /\ pushed = drained \o attributes
    /\ last.op = "get_attributes" =>
          /\ attributes = <<>>
          /\ last.group = SubSeq(pushed, last.value + 1, Len(pushed))
          /\ drained = SubSeq(pushed, 1, last.value) \o last.group

\* C5 witness: a second drain that returns two groups
SecondDrainOfTwo ==
    /\ last.op = "get_attributes"
    /\ last.value >= 1
    /\ Len(last.group) = 2

\* C7 (as stated): enter() leaves the depth >= 1 and one greater than before,
\* and every exit() decreases the depth by exactly one, also on an empty
\* stack.
ExitAlwaysDecreasesDepth ==
    /\ last.op = "enter" => Len(stack) >= 1 /\ Len(stack) = last.depth + 1
    /\ last.op = "exit" => Len(stack) = last.depth - 1

\* C7 (amended): enter() leaves the depth >= 1 and one greater than before;
\* exit() decreases the depth by exactly one when the stack is not empty and
\* leaves an empty stack empty.
ExitDecreasesDepthUnlessEmpty ==
    /\ last.op = "enter" => Len(stack) >= 1 /\ Len(stack) = last.depth + 1
    /\ last.op = "exit" /\ last.depth >= 1 => Len(stack) = last.depth - 1
    /\ last.op = "exit" /\ last.depth = 0 => stack = <<>>

\* C7 witness: exit() from a stack of two scopes
ExitFromDepthTwo ==
    /\ last.op = "exit"
    /\ last.depth = 2
    /\ Len(stack) = 1

\* C8: namespace_type is None until the first enter(); afterwards it is never
\* None again and is Unbraced or Braced after the kind of the scope entered
\* last; exit() leaves it unchanged.
NamespaceTypeSticky ==
    /\ last.op = "new" => namespace_type = None
    /\ last.op = "enter" =>
          namespace_type =
              Some(IF last.scope.kind = "Namespace" THEN "Unbraced" ELSE "Braced")
    /\ last.op \notin {"new", "enter"} => namespace_type = last.nstype
    /\ last.nstype # None => namespace_type # None
    /\ namespace_type = None => stack = <<>>

\* C8 witness: the last scope, a braced one, has been exited
BracedTypeKeptAfterExit ==
    /\ last.op = "exit"
    /\ stack = <<>>
    /\ namespace_type = Some("Braced")

\* C6: at the end of every parse the attribute buffer and the comment buffer
\* are empty, also when attribute groups were gathered in expression position
\* in front of a construct that does not accept them.
BuffersEmptyAtEof ==
    last.op = "eof" => attributes = <<>> /\ comments = <<>>

\* C9: the type engine never aborts on a function call: for every call target
\* the visit completes and records a type for the call node, the declared
\* return type for a Resolved name the index knows with a return type, Mixed
\* for any other name.
FunctionCallAlwaysTyped ==
    outcome # "idle" =>
        LET node == call[1]
            name == node.target.name
        IN  /\ outcome = "done"
            /\ node.id \in DOMAIN map
            /\ node.target.kind = "Name" =>
                  map[node.id] =
                      IF /\ name.variant = "Resolved"
                         /\ name.resolved \in DOMAIN index
                         /\ index[name.resolved] # None
                      THEN index[name.resolved][1]
                      ELSE Mixed

\* C10: a call whose target is a string literal of the form "Cls::m" is typed
\* Mixed, and the walk completes.
MethodReferenceStringCallIsMixed ==
    ( /\ outcome # "idle"
      /\ call[1].target.kind = "Literal"
      /\ call[1].target.litkind = "String"
      /\ ContainsColons(call[1].target.symbol) )
    => /\ outcome = "done"
       /\ call[1].id \in DOMAIN map
       /\ map[call[1].id] = Mixed

\* C11 (as stated): parsing an interface terminates also when the body is not
\* closed before the end of the input; the member loop never spins at Eof: no
\* iteration that starts at Eof ends at Eof with the loop still running.
InterfaceMemberLoopLeavesEof ==
    ~( /\ last.op = "member"
       /\ last.token.kind = "Eof"
       /\ interface.stage = "members"
       /\ tokens[cursor] = "Eof"
       /\ cursor = last.value )

RECURSIVE Nodes(_)
\* the Expression nodes of the tree e
Nodes(e) ==
    {e} \cup UNION { Nodes(c) :
                       c \in { e.left[i] : i \in DOMAIN e.left }
                             \cup { e.then[i] : i \in DOMAIN e.then }
                             \cup { e.right[i] : i \in DOMAIN e.right } }

\* the input range: Eof is the empty span at its end
InputRange == Span(0, spans[Len(spans)].end)

\* C12 (as stated): every Expression node built by for_precedence, left and
\* postfix has span.start <= span.end and a span inside the input range, also
\* when the stream ends, after optional whitespace, behind an operator.
ExpressionSpansWellFormed ==
    parsed # None =>
        \A n \in Nodes(parsed[1]) :
            /\ n.span.start <= n.span.end
            /\ InputRange.start <= n.span.start
            /\ n.span.end <= InputRange.end

\* the diagnostics of the kind
DiagnosticsOf(kind) == { i \in DOMAIN diagnostics : diagnostics[i] = kind }

\* the nodes of the parsed expression, none when nothing has been parsed
ParsedNodes == IF parsed = None THEN {} ELSE Nodes(parsed[1])

\* the binary operations of the parsed expression whose right operand is a
\* binary operation of the same binding power
EqualOnTheRight ==
    { n \in ParsedNodes :
        /\ n.kind = "Binary"
        /\ n.right[1].kind = "Binary"
        /\ infix_precedence(n.right[1].op) = infix_precedence(n.op) }

\* C19: for_precedence(p) consumes an infix operator of binding power q iff
\* q > p, or q = p and the operator is not left-associative, and parses its
\* right operand with q: in the tree, a binary operation in the right operand
\* of another binds tighter, or as tight when the operator is not
\* left-associative; one in the left operand binds tighter, or as tight when
\* the operator is left-associative; no infix operator is left unconsumed;
\* and each non-associative operator met at its own binding power gives
\* exactly one UnexpectedToken diagnostic.
PrecedenceClimbing ==
    /\ \A n \in ParsedNodes :
          n.kind = "Binary" =>
              /\ n.right[1].kind = "Binary" =>
                    \/ infix_precedence(n.right[1].op) > infix_precedence(n.op)
                    \/ /\ infix_precedence(n.right[1].op) = infix_precedence(n.op)
                       /\ associativity(infix_precedence(n.op)) # "Left"
              /\ n.left[1].kind = "Binary" =>
                    \/ infix_precedence(n.left[1].op) > infix_precedence(n.op)
                    \/ /\ infix_precedence(n.left[1].op) = infix_precedence(n.op)
                       /\ associativity(infix_precedence(n.op)) = "Left"
    /\ parsed # None => ~is_infix(tokens[cursor])
    /\ (parsed # None /\ \A n \in ParsedNodes : n.kind # "Missing") =>
          Cardinality(DiagnosticsOf("UnexpectedToken")) =
              Cardinality({ n \in EqualOnTheRight :
                              associativity(infix_precedence(n.op)) = "Non" })

\* C19 witness: `$a < $b < $c` has been parsed to `$a < ($b < $c)` with one
\* diagnostic
NonAssociativeChainParsed ==
    /\ parsed # None
    /\ tokens = <<"Variable", "LessThan", "Variable", "LessThan", "Variable", "Eof">>
    /\ parsed[1] \in EqualOnTheRight
    /\ diagnostics = <<"UnexpectedToken">>

RECURSIVE First(_)
\* where the first token of the expression e starts
First(e) == IF e.left # <<>> THEN First(e.left[1]) ELSE e.span.start

RECURSIVE End(_)
\* where the last token of the expression e ends; a Missing node of the
\* inputs has no token
End(e) ==
    IF e.right # <<>> THEN End(e.right[1])
    ELSE IF e.kind = "Missing" THEN e.span.start
    ELSE e.span.end

\* the token at or behind the byte position
TokenAt(position) ==
    CHOOSE i \in DOMAIN tokens :
        /\ spans[i].start >= position
        /\ \A j \in DOMAIN tokens : spans[j].start >= position => i <= j

\* C20: a `?:` token behind an operand gives a ShortTernary with a condition
\* and an else and no then; a `?` followed by `:` gives a Ternary whose then
\* is a Noop with the span of the token behind `?`; any other `?` gives a
\* Ternary whose then is parsed behind `?`, with the colon required (skipped
\* when there, an ExpectedToken diagnostic when not) and the else parsed
\* behind it.
TernaryForms ==
    parsed # None =>
        \A i \in 1..(cursor - 1) :
            /\ tokens[i] = "QuestionColon" =>
                  \E n \in ParsedNodes :
                      /\ n.kind = "ShortTernary"
                      /\ n.then = <<>>
                      /\ End(n.left[1]) <= spans[i].start
                      /\ First(n.right[1]) = spans[i + 1].start
            /\ (tokens[i] = "Question" /\ tokens[i + 1] = "Colon") =>
                  \E n \in ParsedNodes :
                      /\ n.kind = "Ternary"
                      /\ End(n.left[1]) <= spans[i].start
                      /\ n.then = <<Leaf("Noop", spans[i + 1])>>
                      /\ First(n.right[1]) = spans[TokenAt(spans[i + 1].end)].start
            /\ (tokens[i] = "Question" /\ tokens[i + 1] # "Colon") =>
                  \E n \in ParsedNodes :
                      /\ n.kind = "Ternary"
                      /\ End(n.left[1]) <= spans[i].start
                      /\ n.then[1].kind # "Noop"
                      /\ First(n.then[1]) = spans[i + 1].start
                      /\ IF tokens[TokenAt(End(n.then[1]))] = "Colon"
                         THEN First(n.right[1]) =
                                  spans[TokenAt(End(n.then[1])) + 1].start
                         ELSE /\ First(n.right[1]) =
                                     spans[TokenAt(End(n.then[1]))].start
                              /\ DiagnosticsOf("ExpectedToken") # {}

\* C20 witness: `$a ? : $b` has been parsed to a Ternary with a Noop then
NoopTernaryParsed ==
    /\ parsed # None
    /\ tokens = <<"Variable", "Question", "Colon", "Variable", "Eof">>
    /\ parsed[1].kind = "Ternary"
    /\ parsed[1].then[1].kind = "Noop"
    /\ parsed[1].then[1].span = spans[3]
    /\ parsed[1].right[1].kind = "Variable"

\* the summary of an inference that has run over an AST
Inferred == outcome = "done" /\ ast # <<>>

RECURSIVE ExpressionsOf(_)
\* the Expression nodes of a node; an ArrayItem is no Expression
ExpressionsOf(node) ==
    (IF node.kind \in {"Skipped", "Value", "KeyValue", "Function", "Parameters",
                       "Parameter"}
     THEN {} ELSE {node})
        \cup UNION { ExpressionsOf(node.inner[i]) : i \in DOMAIN node.inner }

\* C13: after the inference the map has an entry of its own for the id of
\* every Expression of the AST, the operands of an assignment and the
\* variables no scope binds among them.
EveryExpressionHasAnEntry ==
    Inferred =>
        \A s \in DOMAIN ast :
            \A e \in ExpressionsOf(ast[s]) : e.id \in DOMAIN map

\* `$a = L1 + L2` with two integer literals
IsIntegerAddition(node) ==
    /\ node.kind = "AssignmentOperation"
    /\ node.inner[1].kind = "Variable"
    /\ node.inner[2].kind = "ArithmeticOperation"
    /\ \A i \in 1..2 :
          /\ node.inner[2].inner[i].kind = "Literal"
          /\ node.inner[2].inner[i].litkind = "Integer"

\* C14: for `$a = L1 + L2` with two integer literals the assignment is
\* recorded as Integer and `$a` is bound to Integer in the current scope.
IntegerAdditionIsInteger ==
    (Inferred /\ IsIntegerAddition(ast[1])) =>
        /\ TypeMapResolve(map, ast[1].kid) = Ty("Integer")
        /\ ast[1].inner[1].symbol \in DOMAIN scopes[Len(scopes)]
        /\ scopes[Len(scopes)][ast[1].inner[1].symbol] = Ty("Integer")

\* the type of `new target` as the claim C15 has it
NewTypeOf(target) ==
    IF target.kind = "Name" /\ target.name.variant = "Resolved"
    THEN Named(target.name.resolved, target.name.original)
    ELSE IF /\ TypeMapResolve(map, target.id).t = "LiteralString"
            /\ TypeMapResolve(map, target.id).s \in classes
    THEN Named(TypeMapResolve(map, target.id).s, TypeMapResolve(map, target.id).s)
    ELSE Ty("Object")

\* C15: `new` of a resolved name is Named(name); of a target whose type is
\* a LiteralString naming a class of the index Named(class); of any other
\* target, a name that is not resolved among them, Object.
NewExpressionTyped ==
    (Inferred /\ ast[1].kind = "New") =>
        TypeMapResolve(map, ast[1].kid) = NewTypeOf(ast[1].inner[1])

\* the members of a sequence
Members(types) == { types[i] : i \in DOMAIN types }

\* ty is the union of the types: the one type when all are equal, a Union of
\* each distinct type once otherwise
IsUnionOf(ty, types) ==
    IF Cardinality(Members(types)) = 1 THEN ty \in Members(types)
    ELSE /\ ty.t = "Union"
         /\ Members(ty.of) = Members(types)
         /\ Len(ty.of) = Cardinality(Members(types))

\* the recorded types of the values of the items that are not skipped
ValuesOf(items) ==
    { TypeMapResolve(map, ItemValue(items[i]).id) :
        i \in { j \in DOMAIN items : items[j].kind # "Skipped" } }

\* the key types of the items: the recorded type of an explicit key, Integer
\* for every other item
KeysOf(items) ==
    { IF items[i].kind = "KeyValue"
      THEN TypeMapResolve(map, ItemKey(items[i]).id)
      ELSE Ty("Integer") : i \in DOMAIN items }

\* ty is the union of the set of types
IsUnionOfSet(ty, types) ==
    IF Cardinality(types) = 1 THEN ty \in types
    ELSE /\ ty.t = "Union"
         /\ Members(ty.of) = types
         /\ Len(ty.of) = Cardinality(types)

\* C16: an array literal is a TypedArray; its value type is the union of the
\* types of the values of the items that are not skipped; its key type is
\* Integer when no item has a key, and otherwise the union of the key types,
\* where an item with a key gives the type of the key and every other item,
\* a skipped one too, gives Integer.
ArrayLiteralTyped ==
    (Inferred /\ ast[1].kind = "Array") =>
        /\ TypeMapResolve(map, ast[1].kid).t = "TypedArray"
        /\ IsUnionOfSet(TypeMapResolve(map, ast[1].kid).of[2], ValuesOf(ast[1].inner))
        /\ IF \A i \in DOMAIN ast[1].inner : ast[1].inner[i].kind # "KeyValue"
           THEN TypeMapResolve(map, ast[1].kid).of[1] = Ty("Integer")
           ELSE IsUnionOfSet(TypeMapResolve(map, ast[1].kid).of[1],
                             KeysOf(ast[1].inner))

\* C16 witness: `['x' => 1, ]` with a skipped second item has been typed
\* array<'x'|int, int>
KeyedArrayTyped ==
    /\ Inferred
    /\ ast[1].kind = "Array"
    /\ Len(ast[1].inner) = 2
    /\ ast[1].inner[1].kind = "KeyValue"
    /\ ast[1].inner[2].kind = "Skipped"
    /\ map[ast[1].kid] =
           TypedArray(Union(<<LiteralString(<<"x">>), Ty("Integer")>>),
                      Ty("Integer"))

\* the members of a type: of a Union its types, of any other type the type
MembersOf(ty) == IF ty.t = "Union" THEN ty.of ELSE <<ty>>

\* the orders of a list of types
Reorderings(types) ==
    { [i \in DOMAIN types |-> types[p[i]]] : p \in Permutations(DOMAIN types) }

\* C17: simplify_union is idempotent and does not depend on the order:
\* simplifying the members of its result gives the result again, and every
\* order of the list gives a result with the same set of members.
SimplifyUnionIdempotentUnordered ==
    union.result # None =>
        /\ simplify_union(MembersOf(union.result[1])) = union.result[1]
        /\ \A types \in Reorderings(union.types) :
              Members(MembersOf(simplify_union(types)))
                  = Members(MembersOf(union.result[1]))

\* C17 witness: [float, int, float] has been simplified to float|int
ReorderedListSimplified ==
    /\ union.types = <<Ty("Float"), Ty("Integer"), Ty("Float")>>
    /\ union.result = Some(Union(<<Ty("Float"), Ty("Integer")>>))

\* C18: the result of simplify_union never is a Union with two equal members
\* and never a Union of one member; a list of one type, and a list of one
\* type repeated, give the type.
SimplifyUnionNormalizes ==
    union.result # None =>
        /\ union.result[1].t = "Union" =>
              /\ Len(union.result[1].of) # 1
              /\ \A i, j \in DOMAIN union.result[1].of :
                    union.result[1].of[i] = union.result[1].of[j] => i = j
        /\ Cardinality(Members(union.types)) = 1 =>
              union.result[1] = union.types[1]

\* C18 witness: [int, int, int] has been simplified to int
RepeatedTypeSimplified ==
    /\ union.types = <<Ty("Integer"), Ty("Integer"), Ty("Integer")>>
    /\ union.result = Some(Ty("Integer"))

\* the name joined with the innermost scope
JoinedWithInnermost(name) ==
    IF InnermostScope # None /\ InnermostScope[1].name # None
    THEN Coagulate(InnermostScope[1].name[1], name)
    ELSE name

\* C28: while the namespace stack is not empty, namespace() is the scope
\* entered last and not exited yet, and join_with_namespace joins with it,
\* also when the stack holds two scopes or more.
NamespaceIsInnermostScope ==
    (Running /\ stack # <<>>) =>
        /\ namespace = InnermostScope
        /\ \A name \in ImportNames :
              join_with_namespace(name) = JoinedWithInnermost(name)

\* the statements in front of the last one
Front(statements) == SubSeq(statements, 1, Len(statements) - 1)

\* the scope stack after the inference of the statements
ScopesAfter(statements) == visit(statements, Generator(<<>>, ScopeStackNew)).scopes

\* C24: the walk of a function statement, a closure or an arrow function
\* pushes one fresh scope and pops it: afterwards the stack has the depth it
\* had, never 0, and the bindings of the enclosing scope are those it had in
\* front of the callable.
ScopesFollowCallables ==
    (Inferred /\ ast[Len(ast)].kind \in {"Function", "Closure", "ArrowFunction"}) =>
        /\ Len(scopes) = 1
        /\ Len(ended) = 1
        /\ scopes = ScopesAfter(Front(ast))

\* the assignment a is typed after its right-hand side and binds a simple
\* variable on its left in the scope
TypedAsRight(a, scope) ==
    /\ a.kid \in DOMAIN map
    /\ map[a.kid] = TypeMapResolve(map, a.inner[2].kid)
    /\ a.inner[2].kind = "Literal" => a.inner[2].kid \in DOMAIN map
    /\ IF a.inner[1].kind = "Variable"
       THEN /\ a.inner[1].symbol \in DOMAIN scope
            /\ scope[a.inner[1].symbol] = TypeMapResolve(map, a.inner[2].kid)
            /\ a.inner[1].kid \in DOMAIN map
            /\ map[a.inner[1].kid] = TypeMapResolve(map, a.inner[2].kid)
       ELSE DOMAIN scope = {}

\* a function statement whose body starts with an assignment
HasAssignmentInBody(node) ==
    /\ node.kind = "Function"
    /\ Len(node.inner) >= 2
    /\ node.inner[2].kind = "AssignmentOperation"

\* C27: the right-hand side of an assignment is walked first and the
\* assignment has the type recorded for it; a simple variable on the left is
\* bound to that type in the current scope only, and its node is mapped to
\* it; any other left-hand side changes no scope.
AssignmentTyped ==
    Inferred =>
        /\ (ast[1].kind = "AssignmentOperation"
              /\ (Len(ast) = 1 \/ ast[2].kind = "Variable")) =>
              /\ TypedAsRight(ast[1], scopes[1])
              /\ Len(scopes) = 1
              /\ ended = <<>>
        /\ HasAssignmentInBody(ast[Len(ast)]) =>
              /\ TypedAsRight(ast[Len(ast)].inner[2], ended[1])
              /\ scopes = ScopesAfter(Front(ast))

\* C27 witness: `$a = 1; function () { $a = 1.5; }` has bound `$a` to float
\* in the scope of the function and left it int in the enclosing scope
InnerAssignmentTyped ==
    /\ Inferred
    /\ Len(ast) = 2
    /\ HasAssignmentInBody(ast[2])
    /\ ast[2].inner[1].inner = <<>>
    /\ ended = << [x \in { <<"$", "a">> } |-> Ty("Float")] >>
    /\ scopes = << [x \in { <<"$", "a">> } |-> Ty("Integer")] >>
    /\ map[ast[2].inner[2].kid] = Ty("Float")

\* the tokens behind the cursor that are no comment of any kind
NonTriviaAhead ==
    SelectSeq(SubSeq(tokens, cursor + 1, Len(tokens)),
              LAMBDA kind : kind \notin CommentKinds)

\* C23: lookahead(n) returns the (n + 1)-th token behind the cursor that is no
\* line, block, hash or documentation comment, and the Eof token when fewer
\* such tokens are left.
LookaheadSkipsTrivia ==
    last.op = "lookahead" =>
        last.token.kind =
            IF last.value + 1 <= Len(NonTriviaAhead)
            THEN NonTriviaAhead[last.value + 1]
            ELSE "Eof"

\* the `#[` tokens the parser has passed
GroupsPassed == { i \in 1..(cursor - 1) : tokens[i] = "Attribute" }

\* C30: gather_attributes returns true exactly when it has gathered a group,
\* and it has pushed one group to the buffer for each `#[...]` of the input,
\* in the order of the input.
GatherAttributesReportsGroups ==
    last.op = "gather_attributes" =>
        /\ (last.value = 1) <=> (Len(pushed) >= 1)
        /\ Len(pushed) = Cardinality(GroupsPassed)
        /\ attributes = pushed
        /\ \A i, j \in DOMAIN pushed : i < j => pushed[i].id < pushed[j].id

\* C26: a `break` or `continue` statement is parsed in finitely many steps on
\* every token stream: no level in front of `;` or a close tag, and a call of
\* parse_loop_level from within parse_loop_level starts behind a token the
\* call around it has consumed, so that the calls end, with a diagnostic when
\* the level is no integer literal and no `(`.
LoopLevelCallsConsume ==
    /\ \A i \in 2..Len(level.calls) : level.calls[i - 1] < level.calls[i]
    /\ (level.stage = "ending" /\ last.op = "loop") => level.calls = <<>>

\* the operand sub-expressions of a node; a Noop stands for no operand
OperandsOf(n) ==
    { n.left[i] : i \in DOMAIN n.left }
        \cup { n.right[i] : i \in DOMAIN n.right }
        \cup { n.then[i] : i \in { j \in DOMAIN n.then : n.then[j].kind # "Noop" } }

\* C29: the span of every node for_precedence and postfix return contains
\* the spans of its operands: an infix node starts where its left operand
\* starts and ends where its right operand ends, a postfix node starts where
\* its target starts.
SpansContainOperands ==
    parsed # None =>
        \A n \in ParsedNodes :
            /\ \A sub \in OperandsOf(n) :
                  /\ n.span.start <= sub.span.start
                  /\ sub.span.end <= n.span.end
            /\ n.left # <<>> => n.span.start = n.left[1].span.start

\* left has returned a Missing node for the first token of the input, with
\* one diagnostic of the kind, and has left the cursor at the position
MissingReturned(kind, position) ==
    /\ diagnostics = <<kind>>
    /\ parsed[1] = Leaf("Missing", spans[1])
    /\ cursor = position

\* left on a token no expression starts with, and at the end of the input
LeftRecovers ==
    /\ (tokens[1] \in Unexpected \ {"RightBrace"}) => MissingReturned("UnexpectedToken", 2)
    /\ tokens[1] = "RightBrace" => MissingReturned("UnexpectedToken", 1)
    /\ tokens[1] = "Eof" => MissingReturned("UnexpectedEndOfFile", 1)

\* C25 (as stated): left emits one UnexpectedToken for a token that starts no
\* expression, returns Missing for it and consumes it unless it is `}`; at
\* the end of the input it emits one UnexpectedEndOfFile, returns Missing and
\* consumes nothing; in both cases the for_precedence around it returns
\* without looping.
MissingOperandEndsExpression ==
    /\ last.op = "left" => LeftRecovers
    /\ last.op = "create" => LeftRecovers

\* C25 (amended): for_precedence returns without looping at the end of the
\* input and in front of `}`; behind a consumed token it goes on exactly when
\* a postfix or infix operator follows.
MissingOperandEndsExpressionUnlessOperator ==
    /\ last.op = "left" => LeftRecovers
    /\ (last.op = "create" /\ tokens[1] \in {"RightBrace", "Eof"}) => LeftRecovers
    /\ (last.op = "create" /\ tokens[1] \in Unexpected \ {"RightBrace"}) =>
          IF is_postfix(tokens[2]) \/ is_infix(tokens[2])
          THEN /\ parsed[1].kind # "Missing"
               /\ parsed[1].left = <<Leaf("Missing", spans[1])>>
               /\ cursor > 2
               /\ diagnostics[1] = "UnexpectedToken"
          ELSE LeftRecovers

\* C25 witness: `) + $a` has been parsed to an addition with a Missing left
\* operand
MissingOperandOfAddition ==
    /\ last.op = "create"
    /\ tokens = <<"RightParen", "Plus", "Variable", "Eof">>
    /\ parsed[1].kind = "Binary"
    /\ parsed[1].left = <<Leaf("Missing", spans[1])>>
    /\ diagnostics = <<"UnexpectedToken">>

\* the position of the first instanceof of the input
FirstInstanceof == CHOOSE i \in DOMAIN tokens : tokens[i] = "Instanceof" /\ \A j \in 1..(i - 1) : tokens[j] # "Instanceof"

\* the Instanceof nodes of the parsed tree whose right operand is the token
\* behind the first instanceof
InstanceofNodes ==
    { n \in Nodes(parsed[1]) :
        /\ n.kind = "Instanceof"
        /\ n.right # <<>>
        /\ n.right[1].span = spans[FirstInstanceof + 1] }

\* the node the Instanceof arms build for the reserved word
ReservedOperand ==
    Leaf(IF tokens[FirstInstanceof + 1] \in {"Enum", "From"} THEN "Identifier"
         ELSE tokens[FirstInstanceof + 1],
         spans[FirstInstanceof + 1])

\* C21: `X instanceof R` with R one of self, parent, static, enum, from gives
\* one Instanceof node whose right operand is the node of that word; the arm
\* consumes the operator and that one token (the node ends where the word
\* ends, and the cursor stands behind the word when nothing follows), R
\* never reaches the prefix parser, and no diagnostic is added.
InstanceofReservedRight ==
    (last.op = "create" /\ tokens[FirstInstanceof + 1] \in ReservedNames) =>
        /\ Cardinality(InstanceofNodes) = 1
        /\ \A n \in InstanceofNodes :
              /\ n.right = <<ReservedOperand>>
              /\ n.span.end = spans[FirstInstanceof + 1].end
              /\ n.left # <<>>
              /\ n.left[1].span.end = spans[FirstInstanceof - 1].end
        /\ diagnostics = <<>>
        /\ tokens[FirstInstanceof + 2] \in {"SemiColon", "RightBrace", "Eof"}
              => cursor = FirstInstanceof + 2

\* C21 witness: `$a instanceof static + $b` has been parsed
InstanceofStaticParsed ==
    /\ last.op = "create"
    /\ tokens = <<"Variable", "Instanceof", "Static", "Plus", "Variable", "Eof">>
    /\ parsed[1].kind = "Binary"
    /\ parsed[1].left[1].kind = "Instanceof"
    /\ parsed[1].left[1].right = <<Leaf("Static", spans[3])>>
    /\ diagnostics = <<>>
    /\ cursor = 6

\* the position of the left parenthesis of the input
ParenAt == CHOOSE i \in DOMAIN tokens : tokens[i] = "LeftParen"

\* the positions behind the left parenthesis of tokens that are no comment
BehindParen == { i \in (ParenAt + 1)..Len(tokens) : tokens[i] \notin CommentKinds }

\* the position of the n-th token behind the left parenthesis that is no
\* comment (the last token when there are fewer)
NthBehindParen(n) ==
    IF Cardinality(BehindParen) < n THEN Len(tokens)
    ELSE CHOOSE i \in BehindParen : Cardinality({ j \in BehindParen : j < i }) = n - 1

\* the nodes of the parsed tree that are a call or a closure creation
CallNodes ==
    { n \in Nodes(parsed[1]) :
        n.kind \in { form \o suffix :
                       form \in {"Function", "StaticMethod", "StaticVariableMethod", "Method"},
                       suffix \in {"Call", "ClosureCreation"} } }

\* the form of the node the input asks for
FormAsked ==
    IF tokens[2] = "LeftParen" THEN "Function"
    ELSE IF tokens[2] = "Arrow" THEN "Method"
    ELSE IF tokens[3] = "Variable" THEN "StaticVariableMethod"
    ELSE "StaticMethod"

\* C22: behind a call target, a `::` member or a `->` member the parser
\* builds the closure creation of the form exactly when the next three tokens
\* that are no trivia are `(`, `...` and `)`, and it consumes those three; in
\* every other case with a left parenthesis it builds the call of the form.
ClosureCreationOrCall ==
    (last.op = "create" /\ \E i \in DOMAIN tokens : tokens[i] = "LeftParen") =>
        /\ Cardinality(CallNodes) = 1
        /\ \A n \in CallNodes :
              IF tokens[NthBehindParen(1)] = "Ellipsis" /\ tokens[NthBehindParen(2)] = "RightParen"
              THEN /\ n.kind = FormAsked \o "ClosureCreation"
                   /\ n.span.end = spans[NthBehindParen(2)].end
              ELSE n.kind = FormAsked \o "Call"

====
